---- MODULE Spec2Model ----
\* Grix plugin services (PriceService, OptionService, PerpsPairsService,
\* SignalService behind the GrixService facade) as a state machine.
\* Every call is a small process that suspends at each `await`.
EXTENDS Integers, Sequences, FiniteSets, TLC

\* ------------------------------------------------------------------ bounds
MaxCalls == 2      \* call slots (overlapping invocations)
MaxOps == 2        \* calls started in one behaviour
MaxTicks == 2      \* clock advances other than polling delays
MaxBoardLen == 2   \* records of one fetched options board
MaxSignals == 2    \* signals of one completed signal request
MaxPairs == 2      \* pair strings of one perps response

\* ------------------------------------------------------- program constants
MAX_RETRIES == 10
RETRY_DELAY == 2000
CACHE_DURATION == 60000
ASSET_TYPES == {"BTC", "ETH"}
OPTION_TYPES == {"call", "put"}
POSITION_TYPES == {"long", "short"}
PERPS_PROTOCOLS == {"hyperliquid"}
validRiskLevels == {"conservative", "moderate", "aggressive"}
validFocuses == {"income", "growth", "hedging"}

Calls == 1..MaxCalls
Services == {"price", "option", "signal", "perps"}
Undefined == "<undefined>"
NoHandle == 0

\* ------------------------------------------------------------ string casing
\* String.prototype.toUpperCase / toLowerCase over the strings the model uses.
UpperTable ==
  [s \in {"btc", "eth", "Eth", "doge", "call", "put", "Call", "long", "short",
          "hyperliquid", "Hyperliquid", "moderate", "Moderate", "growth"} |->
    CASE s = "btc" -> "BTC"
      [] s \in {"eth", "Eth"} -> "ETH"
      [] s = "doge" -> "DOGE"
      [] s \in {"call", "Call"} -> "CALL"
      [] s = "put" -> "PUT"
      [] s = "long" -> "LONG"
      [] s = "short" -> "SHORT"
      [] s \in {"hyperliquid", "Hyperliquid"} -> "HYPERLIQUID"
      [] s \in {"moderate", "Moderate"} -> "MODERATE"
      [] s = "growth" -> "GROWTH"]

LowerTable ==
  [s \in {"BTC", "ETH", "Eth", "DOGE", "CALL", "PUT", "Call", "LONG", "SHORT",
          "HYPERLIQUID", "Hyperliquid", "MODERATE", "Moderate", "GROWTH", "Dydx"} |->
    CASE s = "BTC" -> "btc"
      [] s \in {"ETH", "Eth"} -> "eth"
      [] s = "DOGE" -> "doge"
      [] s \in {"CALL", "Call"} -> "call"
      [] s = "PUT" -> "put"
      [] s = "LONG" -> "long"
      [] s = "SHORT" -> "short"
      [] s \in {"HYPERLIQUID", "Hyperliquid"} -> "hyperliquid"
      [] s \in {"MODERATE", "Moderate"} -> "moderate"
      [] s = "GROWTH" -> "growth"
      [] s = "Dydx" -> "dydx"]

toUpperCase(s) == IF s \in DOMAIN UpperTable THEN UpperTable[s] ELSE s
toLowerCase(s) == IF s \in DOMAIN LowerTable THEN LowerTable[s] ELSE s

\* ------------------------------------------------------------------- errors
\* types/error.ts: GrixError and its subclasses; "Error" is a plain Error
\* instance, "thrown" any thrown value that is not an Error.
GrixErrorKinds ==
  {"GrixError", "AuthenticationError", "InvalidParameterError",
   "ServiceUnavailableError", "ApiError"}

NoError == [kind |-> "none", code |-> 0, message |-> ""]
GrixError(message) == [kind |-> "GrixError", code |-> 0, message |-> message]
AuthenticationError ==
  [kind |-> "AuthenticationError", code |-> 0,
   message |-> "Authentication failed. Please check your API credentials."]
InvalidParameterError(message) ==
  [kind |-> "InvalidParameterError", code |-> 0, message |-> message]
ApiError(message, code) == [kind |-> "ApiError", code |-> code, message |-> message]
PlainError(message) == [kind |-> "Error", code |-> 0, message |-> message]
ThrownValue(message) == [kind |-> "thrown", code |-> 0, message |-> message]

\* What a remote call can throw: an Error of the transport, or a bare value.
RemoteFailures == {PlainError("network"), ThrownValue("rejected")}

IsGrixError(e) == e.kind \in GrixErrorKinds
IsErrorInstance(e) == IsGrixError(e) \/ e.kind = "Error"

\* BaseService.handleError
handleError(error, context) ==
  IF IsGrixError(error) \/ IsErrorInstance(error)
  THEN error
  ELSE ApiError(<<"Grix API error during", context, error.message>>, 500)

ERROR_MESSAGES ==
  [INVALID_ASSET |-> "Invalid asset. Only BTC and ETH are supported.",
   INVALID_OPTION_TYPE |-> "Invalid option type. Only 'call' and 'put' are supported.",
   INVALID_POSITION_TYPE |-> "Invalid position type. Only 'long' and 'short' are supported."]

\* ------------------------------------------------------------------- state
VARIABLES
  apiKey,         \* BaseService.apiKey (the facade hands the same options to all)
  sdk,            \* BaseService.sdk per service instance, NoHandle = null
  optionsCache,   \* OptionService.optionsCache
  lastFetchTime,  \* OptionService.lastFetchTime
  now,            \* Date.now()
  calls,          \* the invocations in flight, one record per slot
  remoteCalls,    \* the remote API: how often each query entry point was invoked
  initCalls,      \* the remote API: GrixSDK.initialize invocations per service
  nextHandle,     \* the remote API: next client handle
  nextAgent,      \* the remote API: next trade agent id
  history,        \* finished invocations per operation and outcome
  started,        \* invocations started so far
  ticks           \* clock advances so far

vars == <<apiKey, sdk, optionsCache, lastFetchTime, now, calls, remoteCalls,
          initCalls, nextHandle, nextAgent, history, started, ticks>>

RemoteNames ==
  {"fetchAssetPrice", "getOptionsMarketBoard", "getPerpsPairs",
   "createTradeAgent", "requestTradeAgentSignals", "getTradeSignals"}
QueryNames == {"fetchAssetPrice", "getOptionsMarketBoard", "getPerpsPairs"}
Ops == {"getPrice", "getOptions", "getPerpsPairs", "generateSignals"}

NoArg == [none |-> TRUE]
IdleCall ==
  [op |-> "none", pc |-> "idle", req |-> NoArg, log |-> <<>>, ok |-> FALSE,
   err |-> NoError, out |-> NoArg, retries |-> 0, agentId |-> "",
   resp |-> NoArg, refreshed |-> FALSE, delays |-> 0, waited |-> 0,
   handle |-> NoHandle, action |-> "", callback |-> FALSE, extracted |-> NoArg,
   said |-> [text |-> "", error |-> NoError], returned |-> ""]

\* Date.now() is milliseconds since the epoch, far beyond one cache window.
StartTime == 2 * CACHE_DURATION + RETRY_DELAY

ApiKeys == {Undefined, "", "key"}
FalsyUndefinedOnly(x) == x = Undefined
Falsy(x) == x \in {Undefined, ""}

Init ==
  /\ apiKey \in ApiKeys
  /\ sdk = [s \in Services |-> NoHandle]
  /\ optionsCache = <<>>
  /\ lastFetchTime = 0
  /\ now = StartTime
  /\ calls = [c \in Calls |-> IdleCall]
  /\ remoteCalls = [n \in QueryNames |-> 0]
  /\ initCalls = [s \in Services |-> 0]
  /\ nextHandle = 1
  /\ nextAgent = 1
  /\ history = [o \in Ops |-> [ok |-> 0, failed |-> 0]]
  /\ started = 0
  /\ ticks = 0

\* ----------------------------------------------------------------- helpers
Entry(name, arg) == [name |-> name, arg |-> arg]
CountOf(log, name) == Cardinality({i \in DOMAIN log : log[i].name = name})
RemoteInLog(log) == {i \in DOMAIN log : log[i].name \in RemoteNames \cup {"initialize"}}

AllIdle == \A c \in Calls : calls[c].pc = "idle"
LowestIdle(c) == calls[c].pc = "idle" /\ \A d \in Calls : d < c => calls[d].pc # "idle"
CanStart(c) == LowestIdle(c) /\ started < MaxOps

NewCall(op, req) ==
  [IdleCall EXCEPT !.op = op, !.req = req, !.pc = "start"]

\* the promise of the invocation settles: rejected with e / fulfilled with v
Rejected(r, e) == [r EXCEPT !.pc = "done", !.ok = FALSE, !.err = e]
Fulfilled(r, v) == [r EXCEPT !.pc = "done", !.ok = TRUE, !.out = v]

Settle(c, r) ==
  /\ calls' = [calls EXCEPT ![c] = r]
  /\ history' = IF r.pc = "done"
                THEN [history EXCEPT ![r.op] =
                        IF r.ok THEN [@ EXCEPT !.ok = @ + 1]
                        ELSE [@ EXCEPT !.failed = @ + 1]]
                ELSE history

\* BaseService.getSDK up to its await: a cached handle is returned as is,
\* a missing credential throws, otherwise GrixSDK.initialize is invoked.
getSDKEntryAlwaysInitializes(s, r) ==
  IF Falsy(apiKey) THEN Rejected(r, AuthenticationError)
  ELSE [r EXCEPT !.pc = "init", !.log = Append(@, Entry("initialize", NoArg))]

getSDKEntry(s, r) ==
  IF sdk[s] # NoHandle THEN [r EXCEPT !.pc = "sdk", !.handle = sdk[s]]
  ELSE IF Falsy(apiKey) THEN Rejected(r, AuthenticationError)
  ELSE [r EXCEPT !.pc = "init", !.log = Append(@, Entry("initialize", NoArg))]

CountInit(s, r) ==
  initCalls' = IF r.pc = "init" THEN [initCalls EXCEPT ![s] = @ + 1] ELSE initCalls

ServiceOf(op) ==
  CASE op = "getPrice" -> "price"
    [] op = "getOptions" -> "option"
    [] op = "getPerpsPairs" -> "perps"
    [] op = "generateSignals" -> "signal"

\* GrixSDK.initialize returns: this.sdk is assigned and getSDK resolves with it.
InitReturn(c) ==
  /\ calls[c].pc = "init"
  /\ sdk' = [sdk EXCEPT ![ServiceOf(calls[c].op)] = nextHandle]
  /\ nextHandle' = nextHandle + 1
  /\ Settle(c, [calls[c] EXCEPT !.pc = "sdk", !.handle = nextHandle])
  /\ UNCHANGED <<apiKey, optionsCache, lastFetchTime, now, remoteCalls, initCalls,
                 nextAgent, started, ticks>>

\* GrixSDK.initialize throws: getSDK rethrows handleError(error), and the
\* operation's own catch passes it through handleError once more.
InitFail(c) ==
  /\ calls[c].pc = "init"
  /\ \E e \in RemoteFailures :
       Settle(c, Rejected(calls[c],
         handleError(handleError(e, "SDK initialization"), calls[c].op)))
  /\ UNCHANGED <<apiKey, sdk, optionsCache, lastFetchTime, now, remoteCalls,
                 initCalls, nextHandle, nextAgent, started, ticks>>

Invoke(name) == remoteCalls' = [remoteCalls EXCEPT ![name] = @ + 1]

\* ----------------------------------------------------------- PriceService
AssetInputs == {"BTC", "eth", "DOGE"}
Prices == {0, 1005, 2500000}   \* thousandths of a dollar

\* PriceService.validateAsset
validateAsset(asset) == toUpperCase(asset) \in ASSET_TYPES

\* Intl.NumberFormat en-US currency: two fraction digits, half away from zero
formatPrice(price) ==
  LET cents == (price + 5) \div 10
  IN [currency |-> "$", dollars |-> cents \div 100, cents |-> cents % 100]

PriceStart(c) ==
  /\ CanStart(c)
  /\ \E asset \in AssetInputs :
       LET r == NewCall("getPrice", [asset |-> asset])
           n == IF validateAsset(asset)
                THEN getSDKEntry("price", r)
                ELSE Rejected(r, handleError(
                       InvalidParameterError(ERROR_MESSAGES.INVALID_ASSET), "price fetch"))
       IN Settle(c, n) /\ CountInit("price", n)
  /\ started' = started + 1
  /\ UNCHANGED <<apiKey, sdk, optionsCache, lastFetchTime, now, remoteCalls,
                 nextHandle, nextAgent, ticks>>

\* after `await this.getSDK()`: sdk.fetchAssetPrice(assetName) is invoked
PriceFetchCachesPrice(c) ==
  /\ calls[c].op = "getPrice" /\ calls[c].pc = "sdk"
  /\ LET assetName == IF toLowerCase(calls[c].req.asset) = "btc" THEN "bitcoin" ELSE "ethereum"
     IN IF remoteCalls["fetchAssetPrice"] > 0
        THEN /\ \E price \in Prices :
                  Settle(c, Fulfilled(calls[c],
                    [asset |-> toUpperCase(calls[c].req.asset), price |-> price,
                     formattedPrice |-> formatPrice(price), timestamp |-> now]))
             /\ UNCHANGED remoteCalls
        ELSE /\ Settle(c, [calls[c] EXCEPT !.pc = "fetching",
                    !.log = Append(@, Entry("fetchAssetPrice", [asset |-> assetName]))])
             /\ Invoke("fetchAssetPrice")
  /\ UNCHANGED <<apiKey, sdk, optionsCache, lastFetchTime, now, initCalls,
                 nextHandle, nextAgent, started, ticks>>

PriceFetch(c) ==
  /\ calls[c].op = "getPrice" /\ calls[c].pc = "sdk"
  /\ LET assetName == IF toLowerCase(calls[c].req.asset) = "btc" THEN "bitcoin" ELSE "ethereum"
     IN /\ Settle(c, [calls[c] EXCEPT !.pc = "fetching",
                 !.log = Append(@, Entry("fetchAssetPrice", [asset |-> assetName]))])
        /\ Invoke("fetchAssetPrice")
  /\ UNCHANGED <<apiKey, sdk, optionsCache, lastFetchTime, now, initCalls,
                 nextHandle, nextAgent, started, ticks>>

PriceFetchReturn(c) ==
  /\ calls[c].op = "getPrice" /\ calls[c].pc = "fetching"
  /\ \E price \in Prices :
       Settle(c, Fulfilled(calls[c],
         [asset |-> toUpperCase(calls[c].req.asset), price |-> price,
          formattedPrice |-> formatPrice(price), timestamp |-> now]))
  /\ UNCHANGED <<apiKey, sdk, optionsCache, lastFetchTime, now, remoteCalls,
                 initCalls, nextHandle, nextAgent, started, ticks>>

PriceFetchFail(c) ==
  /\ calls[c].op = "getPrice" /\ calls[c].pc = "fetching"
  /\ \E e \in RemoteFailures :
       Settle(c, Rejected(calls[c], handleError(e, "price fetch")))
  /\ UNCHANGED <<apiKey, sdk, optionsCache, lastFetchTime, now, remoteCalls,
                 initCalls, nextHandle, nextAgent, started, ticks>>

\* ----------------------------------------------------------- OptionService
OptionTypeInputs == {"call", "put", "CALL", Undefined}
PositionTypeInputs == {"long", "short", Undefined}
OptionRequests ==
  [asset : AssetInputs, optionType : OptionTypeInputs, positionType : PositionTypeInputs]

NaN == -1
\* parseFloat / Number.prototype.toString over the amounts the board carries
\* (numbers in hundredths)
parseFloat(str) ==
  CASE str = "2.50" -> 250
    [] str = "2.5" -> 250
    [] str = "4" -> 400
    [] OTHER -> NaN
numberToString(n) ==
  CASE n = 250 -> "2.5"
    [] n = 400 -> "4"
    [] OTHER -> "NaN"

\* records of the remote options board
BoardRecords ==
  {[optionId |-> 1, type |-> "call", expiry |-> "2025-03-28", strike |-> 100000,
    protocol |-> "derive", contractPrice |-> 1500, availableAmount |-> "2.50"],
   [optionId |-> 2, type |-> "Put", expiry |-> "2025-06-27", strike |-> 3000,
    protocol |-> "aevo", contractPrice |-> 90, availableAmount |-> "n/a"]}

Boards == UNION {[1..n -> BoardRecords] : n \in 0..MaxBoardLen}
\* what sdk.getOptionsMarketBoard can return: an array, or something else
BoardResponses ==
  {[isArray |-> TRUE, items |-> b] : b \in Boards}
  \cup {[isArray |-> FALSE, items |-> <<>>]}

\* OptionService.transformOptionsData
transformOptionsData(apiResponse) ==
  IF ~apiResponse.isArray THEN <<>>
  ELSE [i \in DOMAIN apiResponse.items |->
         LET option == apiResponse.items[i]
         IN [expiry |-> option.expiry, strike |-> option.strike,
             price |-> option.contractPrice, protocol |-> option.protocol,
             available |-> parseFloat(option.availableAmount),
             type |-> option.type, optionId |-> option.optionId]]

\* getOptions: the cache entries built from the transformed board
CacheEntries(asset, transformedOptions) ==
  [i \in DOMAIN transformedOptions |->
    LET opt == transformedOptions[i]
    IN [optionId |-> opt.optionId, symbol |-> asset, type |-> opt.type,
        expiry |-> opt.expiry, strike |-> opt.strike, protocol |-> opt.protocol,
        marketName |-> opt.protocol, contractPrice |-> opt.price,
        availableAmount |-> numberToString(opt.available)]]

\* getOptions: the cache after a board has been fetched for `asset`
RefreshedCache(cache, asset, response) ==
  CacheEntries(asset, transformOptionsData(response))

\* OptionService.shouldRefreshCache
shouldRefreshCacheAtWindow(time, last) == time - last >= CACHE_DURATION
shouldRefreshCache(time, last) == time - last > CACHE_DURATION

\* getOptions: the parameters of the board fetch
FetchAsset(request) == IF toUpperCase(request.asset) = "BTC" THEN "BTC" ELSE "ETH"
FetchOptionTypeAnyCase(request) ==
  IF toLowerCase(request.optionType) = "call" THEN "call" ELSE "put"
FetchOptionType(request) == IF request.optionType = "call" THEN "call" ELSE "put"
FetchPositionType(request) == IF request.positionType = "long" THEN "long" ELSE "short"

\* getOptions: filtering by option type
FilterOptionsByExpiry(request, cache) ==
  LET byType == IF Falsy(request.optionType) THEN cache
                ELSE SelectSeq(cache, LAMBDA opt :
                       toLowerCase(opt.type) = toLowerCase(request.optionType))
  IN IF "expiry" \in DOMAIN request /\ ~Falsy(request.expiry)
     THEN SelectSeq(byType, LAMBDA opt : opt.expiry = request.expiry)
     ELSE byType

FilterOptions(request, cache) ==
  IF Falsy(request.optionType) THEN cache
  ELSE SelectSeq(cache, LAMBDA opt :
         toLowerCase(opt.type) = toLowerCase(request.optionType))

\* getOptions: the response built from the cache
OptionResponse(request, cache, time) ==
  LET filteredOptions == FilterOptions(request, cache)
  IN [asset |-> request.asset,
      optionType |-> IF Falsy(request.optionType) THEN "all" ELSE request.optionType,
      noOptions |-> Len(filteredOptions) = 0,
      options |-> [i \in DOMAIN filteredOptions |->
                    LET opt == filteredOptions[i]
                    IN [optionId |-> opt.optionId, expiry |-> opt.expiry,
                        strike |-> opt.strike, price |-> opt.contractPrice,
                        protocol |-> opt.protocol,
                        available |-> parseFloat(opt.availableAmount),
                        type |-> opt.type]],
      timestamp |-> time]

\* getOptions up to `await this.getSDK()`: no validation comes first
OptionStartFrom(c, requests) ==
  /\ CanStart(c)
  /\ \E request \in requests :
       LET n == getSDKEntry("option", NewCall("getOptions", request))
       IN Settle(c, n) /\ CountInit("option", n)
  /\ started' = started + 1
  /\ UNCHANGED <<apiKey, sdk, optionsCache, lastFetchTime, now, remoteCalls,
                 nextHandle, nextAgent, ticks>>

OptionStart(c) == OptionStartFrom(c, OptionRequests)

\* after getSDK, cache stale: sdk.getOptionsMarketBoard is invoked
OptionFetch(c) ==
  /\ calls[c].op = "getOptions" /\ calls[c].pc = "sdk"
  /\ shouldRefreshCache(now, lastFetchTime)
  /\ LET request == calls[c].req
     IN Settle(c, [calls[c] EXCEPT !.pc = "fetching",
          !.log = Append(@, Entry("getOptionsMarketBoard",
                    [asset |-> FetchAsset(request),
                     optionType |-> FetchOptionType(request),
                     positionType |-> FetchPositionType(request)]))])
  /\ Invoke("getOptionsMarketBoard")
  /\ UNCHANGED <<apiKey, sdk, optionsCache, lastFetchTime, now, initCalls,
                 nextHandle, nextAgent, started, ticks>>

\* after getSDK, cache fresh: the response comes from the cache
OptionFromCacheOwnAssetOnly(c) ==
  /\ calls[c].op = "getOptions" /\ calls[c].pc = "sdk"
  /\ ~shouldRefreshCache(now, lastFetchTime)
  /\ Settle(c, Fulfilled(calls[c], OptionResponse(calls[c].req,
         SelectSeq(optionsCache, LAMBDA opt : opt.symbol = FetchAsset(calls[c].req)),
         now)))
  /\ UNCHANGED <<apiKey, sdk, optionsCache, lastFetchTime, now, remoteCalls,
                 initCalls, nextHandle, nextAgent, started, ticks>>

OptionFromCache(c) ==
  /\ calls[c].op = "getOptions" /\ calls[c].pc = "sdk"
  /\ ~shouldRefreshCache(now, lastFetchTime)
  /\ Settle(c, Fulfilled(calls[c], OptionResponse(calls[c].req, optionsCache, now)))
  /\ UNCHANGED <<apiKey, sdk, optionsCache, lastFetchTime, now, remoteCalls,
                 initCalls, nextHandle, nextAgent, started, ticks>>

\* the board arrives: the cache is replaced, the refresh time recorded, and
\* the response built from the new cache without another suspension
OptionFetchReturnReadsOldCache(c) ==
  /\ calls[c].op = "getOptions" /\ calls[c].pc = "fetching"
  /\ \E response \in BoardResponses :
       LET cache == RefreshedCache(optionsCache, FetchAsset(calls[c].req), response)
       IN /\ optionsCache' = cache
          /\ lastFetchTime' = now
          /\ Settle(c, Fulfilled([calls[c] EXCEPT !.resp = response, !.refreshed = TRUE],
                                 OptionResponse(calls[c].req, optionsCache, now)))
  /\ UNCHANGED <<apiKey, sdk, now, remoteCalls, initCalls, nextHandle, nextAgent,
                 started, ticks>>

OptionFetchReturnFirstWriterWins(c) ==
  /\ calls[c].op = "getOptions" /\ calls[c].pc = "fetching"
  /\ \E response \in BoardResponses :
       LET cache == IF shouldRefreshCache(now, lastFetchTime)
                    THEN RefreshedCache(optionsCache, FetchAsset(calls[c].req), response)
                    ELSE optionsCache
       IN /\ optionsCache' = cache
          /\ lastFetchTime' = IF shouldRefreshCache(now, lastFetchTime)
                              THEN now ELSE lastFetchTime
          /\ Settle(c, Fulfilled([calls[c] EXCEPT !.resp = response, !.refreshed = TRUE],
                                 OptionResponse(calls[c].req, cache, now)))
  /\ UNCHANGED <<apiKey, sdk, now, remoteCalls, initCalls, nextHandle, nextAgent,
                 started, ticks>>

OptionFetchReturn(c) ==
  /\ calls[c].op = "getOptions" /\ calls[c].pc = "fetching"
  /\ \E response \in BoardResponses :
       LET cache == RefreshedCache(optionsCache, FetchAsset(calls[c].req), response)
       IN /\ optionsCache' = cache
          /\ lastFetchTime' = now
          /\ Settle(c, Fulfilled([calls[c] EXCEPT !.resp = response, !.refreshed = TRUE],
                                 OptionResponse(calls[c].req, cache, now)))
  /\ UNCHANGED <<apiKey, sdk, now, remoteCalls, initCalls, nextHandle, nextAgent,
                 started, ticks>>

OptionFetchFailStartsWindow(c) ==
  /\ calls[c].op = "getOptions" /\ calls[c].pc = "fetching"
  /\ \E e \in RemoteFailures :
       Settle(c, Rejected(calls[c], handleError(e, "options fetch")))
  /\ lastFetchTime' = now
  /\ UNCHANGED <<apiKey, sdk, optionsCache, now, remoteCalls,
                 initCalls, nextHandle, nextAgent, started, ticks>>

OptionFetchFail(c) ==
  /\ calls[c].op = "getOptions" /\ calls[c].pc = "fetching"
  /\ \E e \in RemoteFailures :
       Settle(c, Rejected(calls[c], handleError(e, "options fetch")))
  /\ UNCHANGED <<apiKey, sdk, optionsCache, lastFetchTime, now, remoteCalls,
                 initCalls, nextHandle, nextAgent, started, ticks>>

\* ------------------------------------------------------- PerpsPairsService
ProtocolInputs == {"hyperliquid", "Hyperliquid", "Dydx"}
PerpsAssetInputs == {Undefined, "btc", "ETH", "DOGE"}
PerpsRequests == [protocolName : ProtocolInputs, asset : PerpsAssetInputs]

\* pair strings of the remote API, as runs of text around the delimiter "-"
PairStrings ==
  {<<"BTC", "-", "USD">>, <<"ETH", "-", "USD">>, <<"BTCUSD">>,
   <<"BTC", "-", "USD", "-", "PERP">>}
PairLists == UNION {[1..n -> PairStrings] : n \in 0..MaxPairs}

\* String.prototype.split("-")
RECURSIVE split(_)
split(str) ==
  IF \A i \in DOMAIN str : str[i] # "-" THEN <<str>>
  ELSE LET k == CHOOSE i \in DOMAIN str :
                  str[i] = "-" /\ \A j \in 1..(i - 1) : str[j] # "-"
       IN <<SubSeq(str, 1, k - 1)>> \o split(SubSeq(str, k + 1, Len(str)))

\* const [baseAsset, quoteAsset] = pair.split("-")
FormatPairLastPart(pair) ==
  LET parts == split(pair)
  IN [baseAsset |-> parts[1],
      quoteAsset |-> IF Len(parts) >= 2 THEN parts[Len(parts)] ELSE <<Undefined>>]

FormatPair(pair) ==
  LET parts == split(pair)
  IN [baseAsset |-> parts[1],
      quoteAsset |-> IF Len(parts) >= 2 THEN parts[2] ELSE <<Undefined>>]

\* PerpsPairsService.validateProtocol
validateProtocolPresent(protocolName) == protocolName # ""
validateProtocol(protocolName) == toLowerCase(protocolName) \in PERPS_PROTOCOLS

PerpsStart(c) ==
  /\ CanStart(c)
  /\ \E request \in PerpsRequests :
       LET r == NewCall("getPerpsPairs", request)
           n == IF validateProtocol(request.protocolName)
                THEN getSDKEntry("perps", r)
                ELSE Rejected(r, handleError(
                       InvalidParameterError(<<"Invalid protocol. Only",
                         request.protocolName, "is supported.">>), "perps pairs"))
       IN Settle(c, n) /\ CountInit("perps", n)
  /\ started' = started + 1
  /\ UNCHANGED <<apiKey, sdk, optionsCache, lastFetchTime, now, remoteCalls,
                 nextHandle, nextAgent, ticks>>

\* after getSDK: the asset filter is chosen and sdk.getPerpsPairs invoked
PerpsFetchForwardsAnyAsset(c) ==
  /\ calls[c].op = "getPerpsPairs" /\ calls[c].pc = "sdk"
  /\ LET request == calls[c].req
         assetName == IF request.asset # Undefined
                      THEN toUpperCase(request.asset) ELSE Undefined
     IN Settle(c, [calls[c] EXCEPT !.pc = "fetching",
          !.log = Append(@, Entry("getPerpsPairs",
                    [protocol |-> request.protocolName, baseAsset |-> assetName]))])
  /\ Invoke("getPerpsPairs")
  /\ UNCHANGED <<apiKey, sdk, optionsCache, lastFetchTime, now, initCalls,
                 nextHandle, nextAgent, started, ticks>>

PerpsFetch(c) ==
  /\ calls[c].op = "getPerpsPairs" /\ calls[c].pc = "sdk"
  /\ LET request == calls[c].req
         assetName == IF request.asset # Undefined /\ toLowerCase(request.asset) = "btc"
                      THEN "BTC"
                      ELSE IF request.asset # Undefined /\ toLowerCase(request.asset) = "eth"
                      THEN "ETH"
                      ELSE Undefined
     IN Settle(c, [calls[c] EXCEPT !.pc = "fetching",
          !.log = Append(@, Entry("getPerpsPairs",
                    [protocol |-> request.protocolName, baseAsset |-> assetName]))])
  /\ Invoke("getPerpsPairs")
  /\ UNCHANGED <<apiKey, sdk, optionsCache, lastFetchTime, now, initCalls,
                 nextHandle, nextAgent, started, ticks>>

PerpsFetchReturn(c) ==
  /\ calls[c].op = "getPerpsPairs" /\ calls[c].pc = "fetching"
  /\ \E pairs \in PairLists :
       Settle(c, Fulfilled([calls[c] EXCEPT !.resp = [pairs |-> pairs]],
                           [pairs |-> [i \in DOMAIN pairs |-> FormatPair(pairs[i])]]))
  /\ UNCHANGED <<apiKey, sdk, optionsCache, lastFetchTime, now, remoteCalls,
                 initCalls, nextHandle, nextAgent, started, ticks>>

PerpsFetchFail(c) ==
  /\ calls[c].op = "getPerpsPairs" /\ calls[c].pc = "fetching"
  /\ \E e \in RemoteFailures :
       Settle(c, Rejected(calls[c], handleError(e, "perps pairs")))
  /\ UNCHANGED <<apiKey, sdk, optionsCache, lastFetchTime, now, remoteCalls,
                 initCalls, nextHandle, nextAgent, started, ticks>>

\* ----------------------------------------------------------- SignalService
BudgetInputs == {-100, 0, 1}          \* hundredths of a dollar: 1 is 0.01 USD
WindowInputs == {-1, 0, 1}
RiskInputs == {"moderate", "Moderate"}
FocusInputs == {"growth", "safety", "GROWTH"}

SignalRequests ==
  [asset : AssetInputs, budget_usd : BudgetInputs, trade_window_ms : WindowInputs,
   risk_level : RiskInputs, strategy_focus : FocusInputs]

\* SignalService.validateRequest: the error it throws, NoError if it returns
validateRequestBudgetNotNegative(request) ==
  IF toUpperCase(request.asset) \notin ASSET_TYPES
  THEN InvalidParameterError(ERROR_MESSAGES.INVALID_ASSET)
  ELSE IF request.budget_usd < 0
  THEN InvalidParameterError("Budget must be greater than zero")
  ELSE IF request.trade_window_ms <= 0
  THEN InvalidParameterError("Trading window must be greater than zero")
  ELSE IF request.risk_level \notin validRiskLevels
  THEN InvalidParameterError("Invalid risk level. Must be one of: conservative, moderate, aggressive")
  ELSE IF request.strategy_focus \notin validFocuses
  THEN InvalidParameterError("Invalid strategy focus. Must be one of: income, growth, hedging")
  ELSE NoError

validateRequestNoFocus(request) ==
  IF toUpperCase(request.asset) \notin ASSET_TYPES
  THEN InvalidParameterError(ERROR_MESSAGES.INVALID_ASSET)
  ELSE IF request.budget_usd <= 0
  THEN InvalidParameterError("Budget must be greater than zero")
  ELSE IF request.trade_window_ms <= 0
  THEN InvalidParameterError("Trading window must be greater than zero")
  ELSE IF request.risk_level \notin validRiskLevels
  THEN InvalidParameterError("Invalid risk level. Must be one of: conservative, moderate, aggressive")
  ELSE NoError

validateRequest(request) ==
  IF toUpperCase(request.asset) \notin ASSET_TYPES
  THEN InvalidParameterError(ERROR_MESSAGES.INVALID_ASSET)
  ELSE IF request.budget_usd <= 0
  THEN InvalidParameterError("Budget must be greater than zero")
  ELSE IF request.trade_window_ms <= 0
  THEN InvalidParameterError("Trading window must be greater than zero")
  ELSE IF request.risk_level \notin validRiskLevels
  THEN InvalidParameterError("Invalid risk level. Must be one of: conservative, moderate, aggressive")
  ELSE IF request.strategy_focus \notin validFocuses
  THEN InvalidParameterError("Invalid strategy focus. Must be one of: income, growth, hedging")
  ELSE NoError

\* what the remote API returns for a signal (SignalData)
RemoteSignals ==
  {[id |-> "sig-1",
    signal |-> [action_type |-> "open", position_type |-> "long",
                instrument |-> "BTC-27DEC24-100000-C", instrument_type |-> "option",
                size |-> 1, expected_instrument_price_usd |-> 150,
                expected_total_price_usd |-> 151, reason |-> "momentum",
                target_position_id |-> "null"],
    created_at |-> "2025-01-01T00:00:00Z", updated_at |-> "2025-01-01T00:00:05Z"],
   [id |-> "sig-2",
    signal |-> [action_type |-> "close", position_type |-> "short",
                instrument |-> "ETH-PERP", instrument_type |-> "perp",
                size |-> 3, expected_instrument_price_usd |-> 2000,
                expected_total_price_usd |-> 6000, reason |-> "hedge",
                target_position_id |-> "pos-7"],
    created_at |-> "2025-02-02T00:00:00Z", updated_at |-> "2025-02-02T00:00:09Z"]}

SignalLists == UNION {[1..n -> RemoteSignals] : n \in 0..MaxSignals}
ProgressValues == {"pending", "completed"}

\* what sdk.getTradeSignals can return
PollResponses ==
  {[personalAgents |-> <<>>], [personalAgents |-> <<[signal_requests |-> <<>>]>>]}
  \cup {[personalAgents |-> <<[signal_requests |-> <<[progress |-> p, signals |-> l]>>]>>] :
          p \in ProgressValues, l \in SignalLists}

\* waitForSignals: signalRequest?.progress === "completed" && signals.length > 0
IsTerminalSuccessAnyLength(result) ==
  /\ Len(result.personalAgents) > 0
  /\ Len(result.personalAgents[1].signal_requests) > 0
  /\ result.personalAgents[1].signal_requests[1].progress = "completed"

IsTerminalSuccess(result) ==
  /\ Len(result.personalAgents) > 0
  /\ Len(result.personalAgents[1].signal_requests) > 0
  /\ result.personalAgents[1].signal_requests[1].progress = "completed"
  /\ Len(result.personalAgents[1].signal_requests[1].signals) > 0

\* generateSignals: the mapping of one SignalData into the response shape
MapSignalSwapsPrices(s) ==
  [id |-> s.id,
   action_type |-> s.signal.action_type,
   position_type |-> s.signal.position_type,
   instrument |-> s.signal.instrument,
   instrument_type |-> s.signal.instrument_type,
   size |-> s.signal.size,
   expected_instrument_price_usd |-> s.signal.expected_total_price_usd,
   expected_total_price_usd |-> s.signal.expected_instrument_price_usd,
   reason |-> s.signal.reason,
   target_position_id |-> s.signal.target_position_id,
   created_at |-> s.created_at,
   updated_at |-> s.updated_at]

MapSignal(s) ==
  [id |-> s.id,
   action_type |-> s.signal.action_type,
   position_type |-> s.signal.position_type,
   instrument |-> s.signal.instrument,
   instrument_type |-> s.signal.instrument_type,
   size |-> s.signal.size,
   expected_instrument_price_usd |-> s.signal.expected_instrument_price_usd,
   expected_total_price_usd |-> s.signal.expected_total_price_usd,
   reason |-> s.signal.reason,
   target_position_id |-> s.signal.target_position_id,
   created_at |-> s.created_at,
   updated_at |-> s.updated_at]

SignalResponse(result) ==
  LET allSignals == result.personalAgents[1].signal_requests[1].signals
  IN [signals |-> [i \in DOMAIN allSignals |-> MapSignal(allSignals[i])],
      timestamp |-> now]

\* agent ids as the remote API issues them: decimal strings
AgentIdString(n) ==
  CASE n = 1 -> "1" [] n = 2 -> "2" [] n = 3 -> "3" [] n = 4 -> "4"
    [] n = 5 -> "5" [] OTHER -> "many"

\* Number(agentId): the number a string denotes, NaN if it denotes none
Number(str) ==
  CASE str = "1" -> 1 [] str = "2" -> 2 [] str = "3" -> 3 [] str = "4" -> 4
    [] str = "5" -> 5 [] str = "" -> 0 [] OTHER -> NaN

\* the error waitForSignals throws when the loop ends
TimeoutError == PlainError("Timeout waiting for signals")

\* one iteration of the loop in waitForSignals begins: the loop condition,
\* then getSDK, which returns this.sdk (assigned before the loop and never
\* cleared), and sdk.getTradeSignals({ agentId: agentId.toString() })
LoopHeadOneMore(r) ==
  IF r.retries <= MAX_RETRIES
  THEN [r EXCEPT !.pc = "polling", !.handle = sdk["signal"],
                 !.log = Append(@, Entry("getTradeSignals", [agentId |-> r.agentId]))]
  ELSE Rejected(r, handleError(TimeoutError, "signal generation"))

LoopHead(r) ==
  IF r.retries < MAX_RETRIES
  THEN [r EXCEPT !.pc = "polling", !.handle = sdk["signal"],
                 !.log = Append(@, Entry("getTradeSignals", [agentId |-> r.agentId]))]
  ELSE Rejected(r, handleError(TimeoutError, "signal generation"))

SignalStartFrom(c, requests) ==
  /\ CanStart(c)
  /\ \E request \in requests :
       LET r == NewCall("generateSignals", request)
           e == validateRequest(request)
           n == IF e = NoError
                THEN getSDKEntry("signal", r)
                ELSE Rejected(r, handleError(e, "signal generation"))
       IN Settle(c, n) /\ CountInit("signal", n)
  /\ started' = started + 1
  /\ UNCHANGED <<apiKey, sdk, optionsCache, lastFetchTime, now, remoteCalls,
                 nextHandle, nextAgent, ticks>>

SignalStart(c) == SignalStartFrom(c, SignalRequests)

\* after `await this.getSDK()`: sdk.createTradeAgent(createRequest)
SignalCreate(c) ==
  /\ calls[c].op = "generateSignals" /\ calls[c].pc = "sdk"
  /\ LET request == calls[c].req
     IN Settle(c, [calls[c] EXCEPT !.pc = "creating",
          !.log = Append(@, Entry("createTradeAgent",
                    [assets |-> <<request.asset>>, budget_usd |-> request.budget_usd,
                     trade_window_ms |-> request.trade_window_ms]))])
  /\ UNCHANGED <<apiKey, sdk, optionsCache, lastFetchTime, now, remoteCalls,
                 initCalls, nextHandle, nextAgent, started, ticks>>

\* createTradeAgent returns { agentId }:
\* sdk.requestTradeAgentSignals(Number(agentId), signalRequest) follows
SignalCreateReturnReusesAgent(c) ==
  /\ calls[c].op = "generateSignals" /\ calls[c].pc = "creating"
  /\ LET request == calls[c].req
         agentId == AgentIdString(1)
     IN Settle(c, [calls[c] EXCEPT !.pc = "requesting", !.agentId = agentId,
          !.log = Append(@, Entry("requestTradeAgentSignals",
                    [agentId |-> Number(agentId), assets |-> <<request.asset>>,
                     budget_usd |-> request.budget_usd,
                     user_prompt |-> <<"Generate", request.risk_level,
                                       request.strategy_focus, "strategies">>]))])
  /\ nextAgent' = nextAgent + 1
  /\ UNCHANGED <<apiKey, sdk, optionsCache, lastFetchTime, now, remoteCalls,
                 initCalls, nextHandle, started, ticks>>

SignalCreateReturn(c) ==
  /\ calls[c].op = "generateSignals" /\ calls[c].pc = "creating"
  /\ LET request == calls[c].req
         agentId == AgentIdString(nextAgent)
     IN Settle(c, [calls[c] EXCEPT !.pc = "requesting", !.agentId = agentId,
          !.log = Append(@, Entry("requestTradeAgentSignals",
                    [agentId |-> Number(agentId), assets |-> <<request.asset>>,
                     budget_usd |-> request.budget_usd,
                     user_prompt |-> <<"Generate", request.risk_level,
                                       request.strategy_focus, "strategies">>]))])
  /\ nextAgent' = nextAgent + 1
  /\ UNCHANGED <<apiKey, sdk, optionsCache, lastFetchTime, now, remoteCalls,
                 initCalls, nextHandle, started, ticks>>

SignalCreateFail(c) ==
  /\ calls[c].op = "generateSignals" /\ calls[c].pc = "creating"
  /\ \E e \in RemoteFailures :
       Settle(c, Rejected(calls[c], handleError(e, "signal generation")))
  /\ UNCHANGED <<apiKey, sdk, optionsCache, lastFetchTime, now, remoteCalls,
                 initCalls, nextHandle, nextAgent, started, ticks>>

\* requestTradeAgentSignals returns: waitForSignals starts with retries = 0
SignalRequestReturn(c) ==
  /\ calls[c].op = "generateSignals" /\ calls[c].pc = "requesting"
  /\ LET n == LoopHead([calls[c] EXCEPT !.retries = 0])
     IN Settle(c, n)
  /\ UNCHANGED <<apiKey, sdk, optionsCache, lastFetchTime, now, remoteCalls,
                 initCalls, nextHandle, nextAgent, started, ticks>>

SignalRequestFail(c) ==
  /\ calls[c].op = "generateSignals" /\ calls[c].pc = "requesting"
  /\ \E e \in RemoteFailures :
       Settle(c, Rejected(calls[c], handleError(e, "signal generation")))
  /\ UNCHANGED <<apiKey, sdk, optionsCache, lastFetchTime, now, remoteCalls,
                 initCalls, nextHandle, nextAgent, started, ticks>>

\* getTradeSignals returns: success ends the loop, anything else starts the delay
SignalPollReturnNoDelay(c) ==
  /\ calls[c].op = "generateSignals" /\ calls[c].pc = "polling"
  /\ \E result \in PollResponses :
       Settle(c, IF IsTerminalSuccess(result)
                 THEN Fulfilled([calls[c] EXCEPT !.resp = result], SignalResponse(result))
                 ELSE LoopHead([calls[c] EXCEPT !.resp = result, !.retries = @ + 1]))
  /\ UNCHANGED <<apiKey, sdk, optionsCache, lastFetchTime, now, remoteCalls,
                 initCalls, nextHandle, nextAgent, started, ticks>>

SignalPollReturn(c) ==
  /\ calls[c].op = "generateSignals" /\ calls[c].pc = "polling"
  /\ \E result \in PollResponses :
       Settle(c, IF IsTerminalSuccess(result)
                 THEN Fulfilled([calls[c] EXCEPT !.resp = result], SignalResponse(result))
                 ELSE [calls[c] EXCEPT !.pc = "delay", !.resp = result])
  /\ UNCHANGED <<apiKey, sdk, optionsCache, lastFetchTime, now, remoteCalls,
                 initCalls, nextHandle, nextAgent, started, ticks>>

SignalPollFailRetries(c) ==
  /\ calls[c].op = "generateSignals" /\ calls[c].pc = "polling"
  /\ \E e \in RemoteFailures :
       Settle(c, [calls[c] EXCEPT
         !.log = Append(@, Entry("getTradeSignals", [agentId |-> calls[c].agentId]))])
  /\ UNCHANGED <<apiKey, sdk, optionsCache, lastFetchTime, now, remoteCalls,
                 initCalls, nextHandle, nextAgent, started, ticks>>

SignalPollFail(c) ==
  /\ calls[c].op = "generateSignals" /\ calls[c].pc = "polling"
  /\ \E e \in RemoteFailures :
       Settle(c, Rejected(calls[c], handleError(e, "signal generation")))
  /\ UNCHANGED <<apiKey, sdk, optionsCache, lastFetchTime, now, remoteCalls,
                 initCalls, nextHandle, nextAgent, started, ticks>>

\* the setTimeout of RETRY_DELAY fires: retries++ and the loop condition.
\* The time slept is accounted on the call; the wall clock moves in Tick.
SignalDelayDoneKeepsRetries(c) ==
  /\ calls[c].op = "generateSignals" /\ calls[c].pc = "delay"
  /\ LET n == LoopHead([calls[c] EXCEPT !.delays = @ + 1,
                                        !.waited = @ + RETRY_DELAY])
     IN Settle(c, n)
  /\ UNCHANGED <<apiKey, sdk, optionsCache, lastFetchTime, now, remoteCalls,
                 initCalls, nextHandle, nextAgent, started, ticks>>

SignalDelayDone(c) ==
  /\ calls[c].op = "generateSignals" /\ calls[c].pc = "delay"
  /\ LET n == LoopHead([calls[c] EXCEPT !.retries = @ + 1, !.delays = @ + 1,
                                        !.waited = @ + RETRY_DELAY])
     IN Settle(c, n)
  /\ UNCHANGED <<apiKey, sdk, optionsCache, lastFetchTime, now, remoteCalls,
                 initCalls, nextHandle, nextAgent, started, ticks>>

\* ------------------------------------------------------------ environment
\* the caller of the service takes the settled promise; the slot is free again
Return(c) ==
  /\ calls[c].pc = "done" /\ calls[c].action = ""
  /\ calls' = [calls EXCEPT ![c] = IdleCall]
  /\ UNCHANGED <<apiKey, sdk, optionsCache, lastFetchTime, now, remoteCalls,
                 initCalls, nextHandle, nextAgent, history, started, ticks>>

TickSteps == {CACHE_DURATION \div 2, CACHE_DURATION}

Tick ==
  /\ ticks < MaxTicks
  /\ \E d \in TickSteps : now' = now + d
  /\ ticks' = ticks + 1
  /\ UNCHANGED <<apiKey, sdk, optionsCache, lastFetchTime, calls, remoteCalls,
                 initCalls, nextHandle, nextAgent, history, started>>

\* --------------------------------------------------------- action handlers
\* GET_OPTION_PRICE and GET_TRADING_SIGNAL. The instance variables (sdk,
\* optionsCache, lastFetchTime) are those of the GrixService in use: a handler
\* invocation constructs a new one.
OPTION_ACTION == "GET_OPTION_PRICE"
SIGNAL_ACTION == "GET_TRADING_SIGNAL"
WEEK_MS == 604800000
DEFAULT_BUDGET == 10000

\* the handler's catch: callback with the error text (if a callback was
\* given), return false
HandlerFailed(r, e) ==
  [r EXCEPT !.pc = "handled", !.err = e, !.returned = "false",
            !.said = IF r.callback THEN [text |-> "sorry", error |-> e] ELSE @]

\* validateGrixConfig(runtime), then new GrixService({ apiKey }); the handler
\* then awaits the state and the parameter extraction
HandlerStartSharedService(c, action) ==
  /\ CanStart(c)
  /\ \E openai \in ApiKeys, callback \in BOOLEAN :
       LET r == [IdleCall EXCEPT !.action = action, !.callback = callback]
       IN IF Falsy(apiKey) \/ Falsy(openai)
          THEN calls' = [calls EXCEPT ![c] =
                 HandlerFailed(r, PlainError("Grix configuration validation failed"))]
          ELSE calls' = [calls EXCEPT ![c] = [r EXCEPT !.pc = "extract"]]
  /\ started' = started + 1
  /\ UNCHANGED <<apiKey, sdk, optionsCache, lastFetchTime, now, remoteCalls,
                 initCalls, nextHandle, nextAgent, history, ticks>>

HandlerStart(c, action) ==
  /\ CanStart(c)
  /\ \E openai \in ApiKeys, callback \in BOOLEAN :
       LET r == [IdleCall EXCEPT !.action = action, !.callback = callback]
       IN IF Falsy(apiKey) \/ Falsy(openai)
          THEN /\ calls' = [calls EXCEPT ![c] =
                    HandlerFailed(r, PlainError("Grix configuration validation failed"))]
               /\ UNCHANGED <<sdk, optionsCache, lastFetchTime>>
          ELSE /\ calls' = [calls EXCEPT ![c] = [r EXCEPT !.pc = "extract"]]
               /\ sdk' = [s \in Services |-> NoHandle]
               /\ optionsCache' = <<>>
               /\ lastFetchTime' = 0
  /\ started' = started + 1
  /\ UNCHANGED <<apiKey, now, remoteCalls, initCalls, nextHandle, nextAgent,
                 history, ticks>>

\* composeState or generateObjectDeprecated throws
HandlerExtractFail(c) ==
  /\ calls[c].pc = "extract"
  /\ calls' = [calls EXCEPT ![c] = HandlerFailed(calls[c], PlainError("extraction"))]
  /\ UNCHANGED <<apiKey, sdk, optionsCache, lastFetchTime, now, remoteCalls,
                 initCalls, nextHandle, nextAgent, history, started, ticks>>

\* x || fallback
OrDefault(x, fallback) == IF x = Undefined \/ x = "" THEN fallback ELSE x

\* what the extraction can return for GET_OPTION_PRICE
OptionExtractions ==
  [asset : {Undefined, "eth"}, optionType : {Undefined, "Put"},
   positionType : {Undefined, "short"}]

\* GET_OPTION_PRICE: the parameters are normalized and getOptions is called
OptionHandlerInvoke(c) ==
  /\ calls[c].pc = "extract" /\ calls[c].action = OPTION_ACTION
  /\ \E extractedParams \in OptionExtractions :
       LET normalizedParams ==
             [asset |-> toUpperCase(OrDefault(extractedParams.asset, "BTC")),
              optionType |-> toLowerCase(OrDefault(extractedParams.optionType, "call")),
              positionType |-> toLowerCase(OrDefault(extractedParams.positionType, "long"))]
           r == [calls[c] EXCEPT !.op = "getOptions", !.req = normalizedParams,
                                 !.extracted = extractedParams]
           n == getSDKEntry("option", r)
       IN Settle(c, n) /\ CountInit("option", n)
  /\ UNCHANGED <<apiKey, sdk, optionsCache, lastFetchTime, now, remoteCalls,
                 nextHandle, nextAgent, started, ticks>>

\* what the extraction can return for GET_TRADING_SIGNAL (budget 0: none found)
SignalExtractions ==
  [asset : {Undefined, "eth"}, budget_usd : {0, 5000}, risk_level : {Undefined},
   strategy_focus : {Undefined, "growth", "safety", "yield"}]

\* GET_TRADING_SIGNAL: the parameters are normalized and generateSignals is
\* called with a trade window of one week
SignalHandlerInvokeMapsFocus(c) ==
  /\ calls[c].pc = "extract" /\ calls[c].action = SIGNAL_ACTION
  /\ \E extractedParams \in SignalExtractions :
       LET focus == OrDefault(extractedParams.strategy_focus, "growth")
           normalizedParams ==
             [asset |-> toUpperCase(OrDefault(extractedParams.asset, "BTC")),
              budget_usd |-> IF extractedParams.budget_usd = 0 THEN DEFAULT_BUDGET
                             ELSE extractedParams.budget_usd,
              risk_level |-> OrDefault(extractedParams.risk_level, "moderate"),
              strategy_focus |-> IF focus = "safety" THEN "hedging"
                                 ELSE IF focus = "yield" THEN "income" ELSE focus]
           request == [asset |-> normalizedParams.asset,
                       budget_usd |-> normalizedParams.budget_usd,
                       risk_level |-> normalizedParams.risk_level,
                       strategy_focus |-> normalizedParams.strategy_focus,
                       trade_window_ms |-> WEEK_MS]
           r == [calls[c] EXCEPT !.op = "generateSignals", !.req = request,
                                 !.extracted = extractedParams]
           e == validateRequest(request)
           n == IF e = NoError
                THEN getSDKEntry("signal", r)
                ELSE Rejected(r, handleError(e, "signal generation"))
       IN Settle(c, n) /\ CountInit("signal", n)
  /\ UNCHANGED <<apiKey, sdk, optionsCache, lastFetchTime, now, remoteCalls,
                 nextHandle, nextAgent, started, ticks>>

SignalHandlerInvoke(c) ==
  /\ calls[c].pc = "extract" /\ calls[c].action = SIGNAL_ACTION
  /\ \E extractedParams \in SignalExtractions :
       LET normalizedParams ==
             [asset |-> toUpperCase(OrDefault(extractedParams.asset, "BTC")),
              budget_usd |-> IF extractedParams.budget_usd = 0 THEN DEFAULT_BUDGET
                             ELSE extractedParams.budget_usd,
              risk_level |-> OrDefault(extractedParams.risk_level, "moderate"),
              strategy_focus |-> OrDefault(extractedParams.strategy_focus, "growth")]
           request == [asset |-> normalizedParams.asset,
                       budget_usd |-> normalizedParams.budget_usd,
                       risk_level |-> normalizedParams.risk_level,
                       strategy_focus |-> normalizedParams.strategy_focus,
                       trade_window_ms |-> WEEK_MS]
           r == [calls[c] EXCEPT !.op = "generateSignals", !.req = request,
                                 !.extracted = extractedParams]
           e == validateRequest(request)
           n == IF e = NoError
                THEN getSDKEntry("signal", r)
                ELSE Rejected(r, handleError(e, "signal generation"))
       IN Settle(c, n) /\ CountInit("signal", n)
  /\ UNCHANGED <<apiKey, sdk, optionsCache, lastFetchTime, now, remoteCalls,
                 nextHandle, nextAgent, started, ticks>>

\* the awaited service call has settled: the handler formats and reports the
\* result and returns true, or its catch reports the error and returns false
HandlerFinish(c) ==
  /\ calls[c].pc = "done" /\ calls[c].action # ""
  /\ calls' = [calls EXCEPT ![c] =
       IF calls[c].ok
       THEN [calls[c] EXCEPT !.pc = "handled", !.returned = "true",
               !.said = IF calls[c].callback
                        THEN [text |-> "result", error |-> NoError] ELSE @]
       ELSE HandlerFailed(calls[c], calls[c].err)]
  /\ UNCHANGED <<apiKey, sdk, optionsCache, lastFetchTime, now, remoteCalls,
                 initCalls, nextHandle, nextAgent, history, started, ticks>>

\* the runtime takes the handler's return value
HandlerReturn(c) ==
  /\ calls[c].pc = "handled"
  /\ calls' = [calls EXCEPT ![c] = IdleCall]
  /\ UNCHANGED <<apiKey, sdk, optionsCache, lastFetchTime, now, remoteCalls,
                 initCalls, nextHandle, nextAgent, history, started, ticks>>

Common(c) ==
  \/ InitReturn(c)
  \/ InitFail(c)
  \/ Return(c)

PriceStep(c) ==
  \/ PriceFetch(c)
  \/ PriceFetchReturn(c)
  \/ PriceFetchFail(c)

OptionStep(c) ==
  \/ OptionFetch(c)
  \/ OptionFromCache(c)
  \/ OptionFetchReturn(c)
  \/ OptionFetchFail(c)

PerpsStep(c) ==
  \/ PerpsFetch(c)
  \/ PerpsFetchReturn(c)
  \/ PerpsFetchFail(c)

SignalStep(c) ==
  \/ SignalCreate(c)
  \/ SignalCreateReturn(c)
  \/ SignalCreateFail(c)
  \/ SignalRequestReturn(c)
  \/ SignalRequestFail(c)
  \/ SignalPollReturn(c)
  \/ SignalPollFail(c)
  \/ SignalDelayDone(c)

\* the GrixService facade, one invocation at a time
Next ==
  \/ \E c \in Calls : AllIdle /\ PriceStart(c)
  \/ \E c \in Calls : AllIdle /\ OptionStart(c)
  \/ \E c \in Calls : AllIdle /\ PerpsStart(c)
  \/ \E c \in Calls : AllIdle /\ SignalStart(c)
  \/ \E c \in Calls : PriceStep(c)
  \/ \E c \in Calls : OptionStep(c)
  \/ \E c \in Calls : PerpsStep(c)
  \/ \E c \in Calls : SignalStep(c)
  \/ \E c \in Calls : Common(c)
  \/ Tick

Spec == Init /\ [][Next]_vars

\* one PriceService instance, one invocation at a time
PriceNext ==
  \/ \E c \in Calls : AllIdle /\ PriceStart(c)
  \/ \E c \in Calls : PriceStep(c)
  \/ \E c \in Calls : Common(c)
  \/ Tick

PriceSpec == Init /\ [][PriceNext]_vars

\* one OptionService instance, one invocation at a time
OptionNext ==
  \/ \E c \in Calls : AllIdle /\ OptionStart(c)
  \/ \E c \in Calls : OptionStep(c)
  \/ \E c \in Calls : Common(c)
  \/ Tick

OptionSpec == Init /\ [][OptionNext]_vars

\* one PerpsPairsService instance, one invocation at a time
PerpsNext ==
  \/ \E c \in Calls : AllIdle /\ PerpsStart(c)
  \/ \E c \in Calls : PerpsStep(c)
  \/ \E c \in Calls : Common(c)
  \/ Tick

PerpsSpec == Init /\ [][PerpsNext]_vars

\* one SignalService instance, one invocation at a time
SignalNext ==
  \/ \E c \in Calls : AllIdle /\ SignalStart(c)
  \/ \E c \in Calls : SignalStep(c)
  \/ \E c \in Calls : Common(c)
  \/ Tick

SignalSpec == Init /\ [][SignalNext]_vars

\* the requests of the overlapping invocations
OverlapRequests ==
  {r \in OptionRequests :
     r.asset \in {"BTC", "eth"} /\ r.optionType = "call" /\ r.positionType = Undefined}

\* time passes after one answer was processed while another is outstanding
BetweenAnswers == lastFetchTime = now /\ \E c \in Calls : calls[c].pc = "fetching"

NoneSettled == \A c \in Calls : calls[c].pc # "done"

\* one OptionService instance, invocations overlapping: a caller starts a
\* query while earlier ones are suspended at an await; the continuation of a
\* settled promise runs before any other task
OptionOverlapNext ==
  \/ \E c \in Calls : NoneSettled /\ OptionStartFrom(c, OverlapRequests)
  \/ \E c \in Calls : NoneSettled /\ OptionStep(c)
  \/ \E c \in Calls : NoneSettled /\ InitReturn(c)
  \/ \E c \in Calls : NoneSettled /\ InitFail(c)
  \/ \E c \in Calls : Return(c)
  \/ NoneSettled /\ BetweenAnswers /\ Tick

OptionOverlapSpec == Init /\ [][OptionOverlapNext]_vars

\* getOptions requests that carry the optional strike, expiry and limit fields
StrikeInputs == {3000, 100000}
ExpiryInputs == {Undefined, "2025-03-28"}
LimitInputs == {1, 2}
FilterRequests ==
  [asset : {"BTC", "eth"}, optionType : {"call", Undefined}, positionType : {Undefined},
   strike : StrikeInputs, expiry : ExpiryInputs, limit : LimitInputs]

\* one OptionService instance queried with strike, expiry and limit, one
\* invocation at a time
OptionFilterNext ==
  \/ \E c \in Calls : AllIdle /\ OptionStartFrom(c, FilterRequests)
  \/ \E c \in Calls : OptionStep(c)
  \/ \E c \in Calls : Common(c)
  \/ Tick

OptionFilterSpec == Init /\ [][OptionFilterNext]_vars

\* GET_OPTION_PRICE invocations, each on the GrixService it constructs, and
\* direct queries of the GrixService in use; one invocation at a time
OptionHandlerNext ==
  \/ \E c \in Calls : AllIdle /\ HandlerStart(c, OPTION_ACTION)
  \/ \E c \in Calls : AllIdle /\ OptionStartFrom(c, OverlapRequests)
  \/ \E c \in Calls : OptionHandlerInvoke(c)
  \/ \E c \in Calls : HandlerExtractFail(c)
  \/ \E c \in Calls : OptionStep(c)
  \/ \E c \in Calls : Common(c)
  \/ \E c \in Calls : HandlerFinish(c)
  \/ \E c \in Calls : HandlerReturn(c)
  \/ Tick

OptionHandlerSpec == Init /\ [][OptionHandlerNext]_vars

\* GET_TRADING_SIGNAL invocations, one at a time
SignalHandlerNext ==
  \/ \E c \in Calls : AllIdle /\ HandlerStart(c, SIGNAL_ACTION)
  \/ \E c \in Calls : SignalHandlerInvoke(c)
  \/ \E c \in Calls : HandlerExtractFail(c)
  \/ \E c \in Calls : SignalStep(c)
  \/ \E c \in Calls : InitReturn(c)
  \/ \E c \in Calls : InitFail(c)
  \/ \E c \in Calls : HandlerFinish(c)
  \/ \E c \in Calls : HandlerReturn(c)

SignalHandlerSpec == Init /\ [][SignalHandlerNext]_vars

\* generateSignals with every pending remote call and every pending delay
\* eventually returning or failing; a request that passes validation and one
\* that does not
FairRequests ==
  [asset : {"BTC"}, budget_usd : {0, 1}, trade_window_ms : {1},
   risk_level : {"moderate"}, strategy_focus : {"growth"}]

\* the pending await of call c settles
SignalProgress(c) == SignalStep(c) \/ InitReturn(c) \/ InitFail(c)

SignalFairNext ==
  \/ \E c \in Calls : AllIdle /\ SignalStartFrom(c, FairRequests)
  \/ \E c \in Calls : SignalStep(c)
  \/ \E c \in Calls : InitReturn(c)
  \/ \E c \in Calls : InitFail(c)
  \/ \E c \in Calls : Return(c)

SignalFairSpec ==
  /\ Init
  /\ [][SignalFairNext]_vars
  /\ \A c \in Calls : WF_vars(SignalProgress(c))
\* ================================================================== claims
IsCall(c, op) == calls[c].op = op
Settled(c) == calls[c].pc = "done"
RejectedWith(c, kind) == Settled(c) /\ ~calls[c].ok /\ calls[c].err.kind = kind
NoRemoteCall(c) == RemoteInLog(calls[c].log) = {}

\* C1: for every asset whose upper-cased form is neither BTC nor ETH, getPrice,
\* getOptions and generateSignals each fail with InvalidParameterError and
\* make no remote call (no SDK initialization either) during the invocation.
C1_UnsupportedAssetRejectedBeforeRemote ==
  \A c \in Calls :
    (calls[c].op \in {"getPrice", "getOptions", "generateSignals"}
       /\ toUpperCase(calls[c].req.asset) \notin {"BTC", "ETH"})
    => (RejectedWith(c, "InvalidParameterError") /\ NoRemoteCall(c))

\* C2: generateSignals validates before any remote call: an unsupported
\* asset, budget_usd <= 0, trade_window_ms <= 0, a risk level outside
\* {conservative, moderate, aggressive} or a strategy focus outside {income,
\* growth, hedging} makes the call fail with InvalidParameterError, and the
\* call never invokes GrixSDK.initialize, createTradeAgent,
\* requestTradeAgentSignals or getTradeSignals.
C2_InvalidRequest(request) ==
  \/ toUpperCase(request.asset) \notin {"BTC", "ETH"}
  \/ request.budget_usd <= 0
  \/ request.trade_window_ms <= 0
  \/ request.risk_level \notin {"conservative", "moderate", "aggressive"}
  \/ request.strategy_focus \notin {"income", "growth", "hedging"}

C2_ValidationPrecedesRemote ==
  \A c \in Calls :
    (IsCall(c, "generateSignals") /\ C2_InvalidRequest(calls[c].req))
    => /\ RejectedWith(c, "InvalidParameterError")
       /\ NoRemoteCall(c)

\* a call rejected only for its strategy focus, the last rule of the validation
C2_Witness ==
  \E c \in Calls :
    /\ IsCall(c, "generateSignals")
    /\ calls[c].req = [asset |-> "BTC", budget_usd |-> 1, trade_window_ms |-> 1,
                       risk_level |-> "moderate", strategy_focus |-> "safety"]
    /\ RejectedWith(c, "InvalidParameterError")
    /\ apiKey = "key"

\* C3: with the other fields valid, generateSignals fails with
\* InvalidParameterError if and only if budget_usd <= 0 or trade_window_ms <= 0;
\* with the smallest positive values validation passes and the workflow goes
\* on: the client handle is acquired and createTradeAgent is the first call of
\* the remote API, so a call that ends before it ended in getSDK.
C3_OthersValid(request) ==
  /\ toUpperCase(request.asset) \in {"BTC", "ETH"}
  /\ request.risk_level \in {"conservative", "moderate", "aggressive"}
  /\ request.strategy_focus \in {"income", "growth", "hedging"}

C3_PositivityBoundary ==
  \A c \in Calls :
    (IsCall(c, "generateSignals") /\ C3_OthersValid(calls[c].req))
    => /\ RejectedWith(c, "InvalidParameterError")
            <=> (calls[c].req.budget_usd <= 0 \/ calls[c].req.trade_window_ms <= 0)
       /\ (calls[c].req.budget_usd > 0 /\ calls[c].req.trade_window_ms > 0)
            => \/ calls[c].pc \in {"init", "sdk"}
               \/ CountOf(calls[c].log, "createTradeAgent") = 1
               \/ /\ Settled(c) /\ ~calls[c].ok
                  /\ calls[c].err.kind \in {"AuthenticationError", "Error", "ApiError"}
                  /\ \A i \in DOMAIN calls[c].log : calls[c].log[i].name = "initialize"

\* budget 0.01 USD and a window of 1 ms: createTradeAgent has been invoked
C3_Witness ==
  \E c \in Calls :
    /\ IsCall(c, "generateSignals")
    /\ calls[c].req.budget_usd = 1 /\ calls[c].req.trade_window_ms = 1
    /\ calls[c].pc = "creating"

\* C4: for every protocolName whose lower-cased form is not "hyperliquid",
\* getPerpsPairs fails with InvalidParameterError and makes no remote call
\* (no SDK initialization, no sdk.getPerpsPairs).
C4_UnknownProtocolRejected ==
  \A c \in Calls :
    (IsCall(c, "getPerpsPairs") /\ toLowerCase(calls[c].req.protocolName) # "hyperliquid")
    => /\ RejectedWith(c, "InvalidParameterError")
       /\ NoRemoteCall(c)

\* "Dydx" has been rejected on an instance that holds a credential
C4_Witness ==
  \E c \in Calls :
    /\ IsCall(c, "getPerpsPairs")
    /\ calls[c].req.protocolName = "Dydx"
    /\ RejectedWith(c, "InvalidParameterError")
    /\ apiKey = "key"
\* C5: getPrice has no cache: every successful getPrice call invoked
\* fetchAssetPrice exactly once, so after n successful calls in a row on one
\* instance (same or different assets, the clock moving or not) the remote
\* fetchAssetPrice has been invoked exactly n times.
C5_PriceInFlight == \E c \in Calls : IsCall(c, "getPrice") /\ ~Settled(c)

C5_OneFetchPerPriceCall ==
  /\ \A c \in Calls :
       (IsCall(c, "getPrice") /\ Settled(c) /\ calls[c].ok)
       => CountOf(calls[c].log, "fetchAssetPrice") = 1
  /\ (~C5_PriceInFlight /\ history["getPrice"].failed = 0)
       => remoteCalls["fetchAssetPrice"] = history["getPrice"].ok

\* two successful price queries with no clock advance at all
C5_Witness ==
  /\ history["getPrice"].ok = 2
  /\ ticks = 0
  /\ remoteCalls["fetchAssetPrice"] = 2
  /\ \E c \in Calls : IsCall(c, "getPrice") /\ Settled(c) /\ calls[c].ok

\* C6: a getOptions call that holds its client handle issues a
\* getOptionsMarketBoard fetch if and only if the time since the last
\* successful refresh is strictly greater than 60000 ms (never refreshed counts
\* as stale), whatever asset, option type and position type it asks for; and
\* lastFetchTime only ever changes to the time of a successful refresh.
C6_Decides(c) == IsCall(c, "getOptions") /\ calls[c].pc = "sdk" /\ calls'[c].pc # "sdk"

C6_Step ==
  /\ \A c \in Calls :
       C6_Decides(c)
       => /\ (CountOf(calls'[c].log, "getOptionsMarketBoard") = 1)
               <=> (now - lastFetchTime > 60000)
          /\ remoteCalls'["getOptionsMarketBoard"] =
               remoteCalls["getOptionsMarketBoard"]
                 + (IF now - lastFetchTime > 60000 THEN 1 ELSE 0)
  /\ (lastFetchTime' # lastFetchTime)
       => /\ lastFetchTime' = now
          /\ \E c \in Calls : calls'[c].refreshed /\ ~calls[c].refreshed
  /\ (\A c \in Calls : ~C6_Decides(c))
       => remoteCalls'["getOptionsMarketBoard"] = remoteCalls["getOptionsMarketBoard"]

C6_RefreshIffStale == [][C6_Step]_vars

\* a second query exactly one window after a refresh was served from the cache
C6_Witness ==
  /\ now - lastFetchTime = 60000
  /\ remoteCalls["getOptionsMarketBoard"] = 1
  /\ history["getOptions"].ok = 2
  /\ \E c \in Calls : IsCall(c, "getOptions") /\ Settled(c) /\ ~calls[c].refreshed

\* C7: every successful refresh replaces the cache entirely: right after it
\* the cache holds one entry per record of the fetched board, in order, each
\* with the asset of the refreshing request as its symbol, and nothing of an
\* earlier fetch.
C7_RefreshReplacesCache ==
  \A c \in Calls :
    (IsCall(c, "getOptions") /\ Settled(c) /\ calls[c].refreshed)
    => /\ Len(optionsCache) = Len(calls[c].resp.items)
       /\ \A i \in DOMAIN optionsCache :
            /\ optionsCache[i].optionId = calls[c].resp.items[i].optionId
            /\ optionsCache[i].symbol = toUpperCase(calls[c].req.asset)

\* C8: when no status fetch reports "completed" with a non-empty signal list,
\* generateSignals fails with the timeout error after exactly 10
\* getTradeSignals calls; there is never an 11th, and a settled call issues
\* nothing more.
C8_Unsuccessful(result) ==
  \/ Len(result.personalAgents) = 0
  \/ Len(result.personalAgents[1].signal_requests) = 0
  \/ result.personalAgents[1].signal_requests[1].progress # "completed"
  \/ Len(result.personalAgents[1].signal_requests[1].signals) = 0

C8_TimedOut(c) ==
  /\ Settled(c) /\ ~calls[c].ok
  /\ calls[c].err.message = "Timeout waiting for signals"

C8_PollBound(c) ==
  /\ CountOf(calls[c].log, "getTradeSignals") <= 10
  /\ C8_TimedOut(c)
       => (CountOf(calls[c].log, "getTradeSignals") = 10 /\ calls[c].delays = 10)
  /\ (calls[c].delays = 10 /\ C8_Unsuccessful(calls[c].resp))
       => (C8_TimedOut(c) /\ CountOf(calls[c].log, "getTradeSignals") = 10)

C8_TimeoutAfterTenPolls ==
  /\ [](\A c \in Calls : IsCall(c, "generateSignals") => C8_PollBound(c))
  /\ [][\A c \in Calls :
          (IsCall(c, "generateSignals") /\ Settled(c))
          => calls'[c] \in {calls[c], IdleCall}]_vars

\* polling was exhausted: ten status fetches, then the timeout
C8_Witness ==
  \E c \in Calls :
    /\ IsCall(c, "generateSignals") /\ Settled(c) /\ ~calls[c].ok
    /\ calls[c].err.message = "Timeout waiting for signals"
    /\ CountOf(calls[c].log, "getTradeSignals") = 10

\* C9: when the first status poll reports "completed" with at least one
\* signal, generateSignals succeeds after exactly one getTradeSignals call and
\* no delay, with one output signal per remote record, in order, every field
\* equal to the remote record's.
C9_SameFields(o, s) ==
  /\ o.id = s.id
  /\ o.action_type = s.signal.action_type
  /\ o.position_type = s.signal.position_type
  /\ o.instrument = s.signal.instrument
  /\ o.instrument_type = s.signal.instrument_type
  /\ o.size = s.signal.size
  /\ o.expected_instrument_price_usd = s.signal.expected_instrument_price_usd
  /\ o.expected_total_price_usd = s.signal.expected_total_price_usd
  /\ o.reason = s.signal.reason
  /\ o.target_position_id = s.signal.target_position_id
  /\ o.created_at = s.created_at
  /\ o.updated_at = s.updated_at

C9_FirstPollAnswered(c) ==
  /\ IsCall(c, "generateSignals")
  /\ CountOf(calls[c].log, "getTradeSignals") = 1
  /\ calls[c].pc \in {"delay", "done"}
  /\ calls[c].resp # NoArg
  /\ ~C8_Unsuccessful(calls[c].resp)

C9_FirstPollSuccess ==
  \A c \in Calls :
    C9_FirstPollAnswered(c)
    => LET remote == calls[c].resp.personalAgents[1].signal_requests[1].signals
       IN /\ Settled(c) /\ calls[c].ok
          /\ calls[c].delays = 0 /\ calls[c].waited = 0
          /\ Len(calls[c].out.signals) = Len(remote)
          /\ \A i \in DOMAIN remote : C9_SameFields(calls[c].out.signals[i], remote[i])

\* the first poll returned two signals
C9_Witness ==
  \E c \in Calls :
    /\ C9_FirstPollAnswered(c)
    /\ calls[c].ok
    /\ Len(calls[c].out.signals) = 2
    /\ calls[c].out.signals[1].id # calls[c].out.signals[2].id

\* C10: the error generateSignals throws when polling is exhausted is a
\* GrixError (the generic kind of the domain taxonomy), not an untyped error.
C10_TimeoutIsGrixError ==
  \A c \in Calls :
    (IsCall(c, "generateSignals") /\ Settled(c) /\ ~calls[c].ok /\ calls[c].delays = 10)
    => calls[c].err.kind = "GrixError"

\* C11: every failure leaving getPrice, getOptions, getPerpsPairs or
\* generateSignals is a member of the error taxonomy (GrixError or one of its
\* subclasses): handleError passes only those through and wraps every other
\* thrown value as an ApiError with code 500.
C11_Taxonomy ==
  {"GrixError", "AuthenticationError", "InvalidParameterError",
   "ServiceUnavailableError", "ApiError"}

C11_FailuresAreDomainErrors ==
  \A c \in Calls :
    (Settled(c) /\ ~calls[c].ok)
    => /\ calls[c].err.kind \in C11_Taxonomy
       /\ (calls[c].err.kind = "ApiError") => (calls[c].err.code = 500)

\* C12: on one service instance with non-overlapping operations, once
\* GrixSDK.initialize has succeeded it is never invoked again and the handle
\* never changes: every later getSDK call, those of the polling loop included,
\* returns that handle, and no later call fails on the credential.
C12_HandleKept ==
  \A s \in Services :
    (sdk[s] # NoHandle) => (sdk'[s] = sdk[s] /\ initCalls'[s] = initCalls[s])

C12_SameHandle ==
  \A c \in Calls :
    /\ (calls[c].handle # NoHandle)
         => calls[c].handle = sdk[ServiceOf(calls[c].op)]
    /\ (calls[c].pc \in {"sdk", "creating", "requesting", "polling", "delay"})
         => calls[c].handle # NoHandle
    /\ (calls[c].op # "none" /\ sdk[ServiceOf(calls[c].op)] # NoHandle)
         => calls[c].err.kind # "AuthenticationError"

C12_LazyClientReuse == [](C12_SameHandle) /\ [][C12_HandleKept]_vars

\* a second generateSignals polls for the second time on the handle the first
\* call created, without an initialization of its own
C12_Witness ==
  \E c \in Calls :
    /\ IsCall(c, "generateSignals") /\ calls[c].pc = "polling"
    /\ calls[c].delays = 1
    /\ started = 2 /\ initCalls["signal"] = 1
    /\ calls[c].handle = sdk["signal"]
    /\ CountOf(calls[c].log, "initialize") = 0

\* C13: a service instance constructed with an absent or empty apiKey fails
\* permanently: every operation that reaches getSDK, at any point of the
\* instance's lifetime, fails with AuthenticationError; GrixSDK.initialize is
\* never invoked, no handle ever exists and the remote API is never reached.
C13_NoCredentialNoRemote ==
  (apiKey \in {Undefined, ""})
  => /\ \A s \in Services : initCalls[s] = 0 /\ sdk[s] = NoHandle
     /\ \A n \in QueryNames : remoteCalls[n] = 0
     /\ \A o \in Ops : history[o].ok = 0
     /\ \A c \in Calls :
          (calls[c].op # "none")
          => /\ Settled(c) /\ ~calls[c].ok
             /\ calls[c].log = <<>>
             /\ calls[c].err.kind \in {"AuthenticationError", "InvalidParameterError"}
             /\ (IsCall(c, "getPerpsPairs")
                   /\ toLowerCase(calls[c].req.protocolName) = "hyperliquid")
                  => calls[c].err.kind = "AuthenticationError"

\* the second valid query on an instance built with an empty key fails as the
\* first did
C13_Witness ==
  /\ apiKey = ""
  /\ history["getPerpsPairs"].failed = 2
  /\ \E c \in Calls :
       /\ IsCall(c, "getPerpsPairs") /\ calls[c].req.protocolName = "hyperliquid"
       /\ RejectedWith(c, "AuthenticationError")

\* C14: a status poll is terminal-success if and only if the first agent's
\* first signal request has progress "completed" and at least one signal;
\* every other answer (no agent, no signal request, another progress value,
\* "completed" with no signals) leads to the delay and, while attempts remain,
\* to the next poll; after the terminal-success poll the call issues no further
\* getTradeSignals.
C14_TerminalSuccess(result) ==
  /\ Len(result.personalAgents) >= 1
  /\ Len(result.personalAgents[1].signal_requests) >= 1
  /\ result.personalAgents[1].signal_requests[1].progress = "completed"
  /\ Len(result.personalAgents[1].signal_requests[1].signals) >= 1

C14_PollAnswered(c) ==
  IsCall(c, "generateSignals") /\ calls[c].pc = "polling" /\ calls'[c].pc # "polling"

C14_Step ==
  \A c \in Calls :
    /\ C14_PollAnswered(c)
         => /\ calls'[c].log = calls[c].log
            /\ \/ calls'[c].pc = "done" /\ ~calls'[c].ok
               \/ /\ calls'[c].pc = "done" /\ calls'[c].ok
                  /\ C14_TerminalSuccess(calls'[c].resp)
               \/ /\ calls'[c].pc = "delay"
                  /\ ~C14_TerminalSuccess(calls'[c].resp)
    /\ (IsCall(c, "generateSignals") /\ calls[c].pc = "delay"
          /\ calls[c].delays < 9 /\ calls'[c] # calls[c])
         => /\ calls'[c].pc = "polling"
            /\ CountOf(calls'[c].log, "getTradeSignals")
                 = CountOf(calls[c].log, "getTradeSignals") + 1
    /\ (IsCall(c, "generateSignals") /\ Settled(c) /\ calls[c].ok)
         => CountOf(calls'[c].log, "getTradeSignals")
              \in {0, CountOf(calls[c].log, "getTradeSignals")}

C14_State ==
  \A c \in Calls :
    IsCall(c, "generateSignals")
    => /\ (calls[c].pc = "delay") => ~C14_TerminalSuccess(calls[c].resp)
       /\ (Settled(c) /\ calls[c].ok)
            => /\ C14_TerminalSuccess(calls[c].resp)
               /\ CountOf(calls[c].log, "getTradeSignals") = calls[c].delays + 1

C14_TerminalSuccessRule == [](C14_State) /\ [][C14_Step]_vars

\* the second poll answered "completed" with an empty signal list: the call
\* went on to the delay
C14_Witness ==
  \E c \in Calls :
    /\ IsCall(c, "generateSignals") /\ calls[c].pc = "delay"
    /\ CountOf(calls[c].log, "getTradeSignals") = 2
    /\ Len(calls[c].resp.personalAgents) = 1
    /\ Len(calls[c].resp.personalAgents[1].signal_requests) = 1
    /\ calls[c].resp.personalAgents[1].signal_requests[1].progress = "completed"
    /\ calls[c].resp.personalAgents[1].signal_requests[1].signals = <<>>

\* C15: a generateSignals call that passes validation runs its remote steps
\* in a fixed order: one createTradeAgent, then, once it has returned an
\* agentId, one requestTradeAgentSignals for that agent, then, once that has
\* returned, status polls for that same agent. The agent is the one the remote
\* API just created for this call (never one of an earlier call), the call
\* creates no second agent, and it issues no other kind of remote call (no
\* delete, no cancel).
C15_Remote(c) == SelectSeq(calls[c].log, LAMBDA e : e.name # "initialize")

C15_Ordered(c) ==
  LET R == C15_Remote(c)
  IN /\ \A i \in DOMAIN calls[c].log : (calls[c].log[i].name = "initialize") => (i = 1)
     /\ \A i \in DOMAIN R :
          R[i].name = (IF i = 1 THEN "createTradeAgent"
                       ELSE IF i = 2 THEN "requestTradeAgentSignals"
                       ELSE "getTradeSignals")
     /\ (Len(R) >= 2)
          => /\ calls[c].agentId \in {"1", "2", "3", "4", "5"}
             /\ AgentIdString(R[2].arg.agentId) = calls[c].agentId
     /\ \A i \in DOMAIN R : (i >= 3) => (R[i].arg.agentId = calls[c].agentId)
     /\ (calls[c].pc = "creating") => (Len(R) = 1 /\ calls[c].agentId = "")
     /\ (calls[c].pc = "requesting") => (Len(R) = 2)
     /\ (calls[c].pc \in {"polling", "delay"}) => (Len(R) >= 3)
     /\ (Settled(c) /\ calls[c].ok) => (Len(R) >= 3)

C15_AgentStep ==
  \A c \in Calls :
    (IsCall(c, "generateSignals") /\ calls'[c].op = "generateSignals"
       /\ calls'[c].agentId # calls[c].agentId)
    => /\ calls[c].agentId = ""
       /\ calls'[c].agentId = AgentIdString(nextAgent)
       /\ nextAgent' = nextAgent + 1

C15_FixedOrder ==
  /\ [](\A c \in Calls : IsCall(c, "generateSignals") => C15_Ordered(c))
  /\ [][C15_AgentStep /\ nextAgent' >= nextAgent]_vars

\* the second call of the instance polls, for the second time, the agent
\* created for it
C15_Witness ==
  \E c \in Calls :
    /\ IsCall(c, "generateSignals") /\ calls[c].pc = "polling"
    /\ calls[c].agentId = "2"
    /\ CountOf(calls[c].log, "getTradeSignals") = 2
    /\ CountOf(calls[c].log, "createTradeAgent") = 1

\* C16: within one generateSignals invocation the polling loop is strictly
\* sequential: a getTradeSignals call is issued only when none of this
\* invocation is outstanding, and between two consecutive status fetches
\* exactly one delay of 2000 ms elapses.
C16_Polls(r) == CountOf(r.log, "getTradeSignals")

C16_State ==
  \A c \in Calls :
    (IsCall(c, "generateSignals") /\ C16_Polls(calls[c]) >= 1)
    => /\ calls[c].waited = 2000 * calls[c].delays
       /\ (calls[c].pc = "polling") => (C16_Polls(calls[c]) = calls[c].delays + 1)
       /\ (calls[c].pc = "delay") => (C16_Polls(calls[c]) = calls[c].delays + 1)
       /\ Settled(c) => (C16_Polls(calls[c]) \in {calls[c].delays, calls[c].delays + 1})

C16_Step ==
  \A c \in Calls :
    (IsCall(c, "generateSignals") /\ calls'[c].op = "generateSignals"
       /\ C16_Polls(calls'[c]) # C16_Polls(calls[c]))
    => /\ C16_Polls(calls'[c]) = C16_Polls(calls[c]) + 1
       /\ calls[c].pc \in {"requesting", "delay"}
       /\ calls'[c].pc = "polling"
       /\ (calls[c].pc = "delay")
            => /\ calls'[c].delays = calls[c].delays + 1
               /\ calls'[c].waited = calls[c].waited + 2000
       /\ (calls[c].pc = "requesting") => (C16_Polls(calls[c]) = 0)

C16_SequentialPolling == [](C16_State) /\ [][C16_Step]_vars

\* the third status fetch is outstanding after two delays, 4000 ms in all
C16_Witness ==
  \E c \in Calls :
    /\ IsCall(c, "generateSignals") /\ calls[c].pc = "polling"
    /\ C16_Polls(calls[c]) = 3
    /\ calls[c].delays = 2 /\ calls[c].waited = 4000

\* C17: no failed remote call is retried. A failure of GrixSDK.initialize,
\* fetchAssetPrice, getOptionsMarketBoard, getPerpsPairs, createTradeAgent or
\* requestTradeAgentSignals ends the operation with that error after a single
\* attempt; a failed getTradeSignals ends the polling loop at once with that
\* error: no further status fetch, no delay, no attempt counted.
C17_Awaiting == {"init", "fetching", "creating", "requesting", "polling"}

C17_Awaited(r) ==
  CASE r.pc = "init" -> "initialize"
    [] r.pc = "fetching" ->
         (CASE r.op = "getPrice" -> "fetchAssetPrice"
            [] r.op = "getOptions" -> "getOptionsMarketBoard"
            [] OTHER -> "getPerpsPairs")
    [] r.pc = "creating" -> "createTradeAgent"
    [] r.pc = "requesting" -> "requestTradeAgentSignals"
    [] OTHER -> "getTradeSignals"

C17_Step ==
  \A c \in Calls :
    (calls[c].pc \in C17_Awaiting /\ calls'[c] # calls[c])
    => /\ CountOf(calls'[c].log, C17_Awaited(calls[c]))
            = CountOf(calls[c].log, C17_Awaited(calls[c]))
       /\ (calls'[c].pc = "done" /\ ~calls'[c].ok)
            => /\ calls'[c].log = calls[c].log
               /\ calls'[c].retries = calls[c].retries
               /\ calls'[c].delays = calls[c].delays
               /\ \/ calls'[c].err = [kind |-> "Error", code |-> 0, message |-> "network"]
                  \/ calls'[c].err.kind = "ApiError" /\ calls'[c].err.code = 500

C17_State ==
  \A c \in Calls :
    /\ \A n \in {"initialize", "fetchAssetPrice", "getOptionsMarketBoard",
                 "getPerpsPairs", "createTradeAgent", "requestTradeAgentSignals"} :
         CountOf(calls[c].log, n) <= 1
    /\ (Settled(c) /\ ~calls[c].ok /\ CountOf(calls[c].log, "getTradeSignals") >= 1
          /\ calls[c].err.message # "Timeout waiting for signals")
         => CountOf(calls[c].log, "getTradeSignals") = calls[c].delays + 1

C18_Answered(c) ==
  /\ IsCall(c, "getOptions") /\ calls[c].pc = "fetching"
  /\ calls'[c].pc = "done" /\ calls'[c].ok

C18_Step ==
  /\ \A c \in Calls :
       (IsCall(c, "getOptions") /\ calls[c].pc = "sdk" /\ calls'[c].pc # "sdk"
          /\ now - lastFetchTime > 60000)
       => /\ calls'[c].pc = "fetching"
          /\ remoteCalls'["getOptionsMarketBoard"] = remoteCalls["getOptionsMarketBoard"] + 1
  /\ \A c \in Calls :
       C18_Answered(c)
       => /\ lastFetchTime' = now
          /\ Len(optionsCache') = Len(calls'[c].resp.items)
          /\ \A i \in DOMAIN optionsCache' :
               /\ optionsCache'[i].optionId = calls'[c].resp.items[i].optionId
               /\ optionsCache'[i].symbol = toUpperCase(calls[c].req.asset)
  /\ (optionsCache' # optionsCache \/ lastFetchTime' # lastFetchTime)
       => \E c \in Calls : C18_Answered(c)

C18_LastWriterWins == [][C18_Step]_vars

\* two calls fetched while the cache was stale; the second answer, processed
\* 30 or 60 seconds after the first, left its own board and time in the cache
C18_Witness ==
  /\ remoteCalls["getOptionsMarketBoard"] = 2
  /\ history["getOptions"].ok = 2
  /\ ticks = 1 /\ lastFetchTime = now
  /\ \E c \in Calls :
       /\ IsCall(c, "getOptions") /\ Settled(c) /\ calls[c].refreshed
       /\ calls[c].req.asset = "eth"
       /\ Len(optionsCache) = 2
       /\ \A i \in DOMAIN optionsCache :
            /\ optionsCache[i].optionId = calls[c].resp.items[i].optionId
            /\ optionsCache[i].symbol = "ETH"

\* C19: under every interleaving of overlapping operations on one service
\* instance there is a single client handle: at most one GrixSDK.initialize
\* is ever outstanding, at most one handle is ever created, and all
\* operations work on the same handle.
C19_SingleHandle ==
  /\ Cardinality({c \in Calls : calls[c].pc = "init"}) <= 1
  /\ nextHandle <= 2
  /\ \A c, d \in Calls :
       (calls[c].handle # NoHandle /\ calls[d].handle # NoHandle
          /\ ServiceOf(calls[c].op) = ServiceOf(calls[d].op))
       => calls[c].handle = calls[d].handle

\* C20: a getOptions call that does not refresh is served from the one
\* unpartitioned cache whatever asset it asks for: it issues no remote fetch
\* and returns the cached entries, those fetched for another asset included,
\* filtered only by option type, under the asset name of its own request.
C20_ServedFromCache(c) ==
  IsCall(c, "getOptions") /\ Settled(c) /\ calls[c].ok /\ ~calls[c].refreshed

C20_Expected(request) ==
  SelectSeq(optionsCache, LAMBDA o :
    \/ request.optionType \in {Undefined, ""}
    \/ toLowerCase(o.type) = toLowerCase(request.optionType))

C20_UnpartitionedCache ==
  \A c \in Calls :
    C20_ServedFromCache(c)
    => LET expected == C20_Expected(calls[c].req)
       IN /\ CountOf(calls[c].log, "getOptionsMarketBoard") = 0
          /\ calls[c].out.asset = calls[c].req.asset
          /\ Len(calls[c].out.options) = Len(expected)
          /\ \A i \in DOMAIN expected :
               /\ calls[c].out.options[i].optionId = expected[i].optionId
               /\ calls[c].out.options[i].strike = expected[i].strike
               /\ calls[c].out.options[i].protocol = expected[i].protocol

\* a query for eth, inside the window of a refresh made for BTC, returned the
\* BTC entries
C20_Witness ==
  \E c \in Calls :
    /\ C20_ServedFromCache(c)
    /\ calls[c].req.asset = "eth"
    /\ now - lastFetchTime \in 0..60000
    /\ Len(optionsCache) >= 1
    /\ \A i \in DOMAIN optionsCache : optionsCache[i].symbol = "BTC"
    /\ Len(calls[c].out.options) >= 1

\* C21: the strike, expiry and limit fields of an options request are unused:
\* a getOptions call and any call that differs from it only in these fields,
\* run from the same cache state and time, send the same parameters to
\* getOptionsMarketBoard (or both send none) and return the same options list.
C21_Twins(request) ==
  {other \in FilterRequests :
     /\ other.asset = request.asset
     /\ other.optionType = request.optionType
     /\ other.positionType = request.positionType}

C21_Params(request) ==
  [asset |-> FetchAsset(request), optionType |-> FetchOptionType(request),
   positionType |-> FetchPositionType(request)]

C21_Step ==
  \A c \in Calls :
    (IsCall(c, "getOptions") /\ calls'[c].op = "getOptions")
    => \A other \in C21_Twins(calls[c].req) :
         /\ (calls[c].pc = "sdk" /\ calls'[c].pc = "fetching")
              => calls'[c].log[Len(calls'[c].log)].arg = C21_Params(other)
         /\ (calls[c].pc \in {"sdk", "fetching"} /\ calls'[c].pc = "done" /\ calls'[c].ok)
              => /\ calls'[c].log = calls[c].log
                 /\ calls'[c].out.options
                      = OptionResponse(other, optionsCache', now).options

C21_FiltersUnused == [][C21_Step]_vars

\* a query with strike 3000 and expiry 2025-03-28 returned an option of
\* another strike and an option of another expiry
C21_Witness ==
  \E c \in Calls :
    /\ IsCall(c, "getOptions") /\ Settled(c) /\ calls[c].ok
    /\ calls[c].req.strike = 3000 /\ calls[c].req.expiry = "2025-03-28"
    /\ \E i \in DOMAIN calls[c].out.options : calls[c].out.options[i].strike # 3000
    /\ \E i \in DOMAIN calls[c].out.options :
         calls[c].out.options[i].expiry # "2025-03-28"

\* C22: parameters of the remote board fetch: the asset is BTC if the request
\* asset upper-cases to "BTC" and ETH otherwise; the option type is call if
\* request.optionType is exactly "call" and put otherwise; the position type
\* is long if request.positionType is exactly "long" and short for every other
\* value, an absent one included.
C22_ParameterMapping ==
  \A c \in Calls :
    IsCall(c, "getOptions")
    => \A i \in DOMAIN calls[c].log :
         (calls[c].log[i].name = "getOptionsMarketBoard")
         => /\ calls[c].log[i].arg.asset
                 = (IF toUpperCase(calls[c].req.asset) = "BTC" THEN "BTC" ELSE "ETH")
            /\ calls[c].log[i].arg.optionType
                 = (IF calls[c].req.optionType = "call" THEN "call" ELSE "put")
            /\ calls[c].log[i].arg.positionType
                 = (IF calls[c].req.positionType = "long" THEN "long" ELSE "short")

\* "CALL" with no position type was fetched as put and short
C22_Witness ==
  \E c \in Calls :
    /\ IsCall(c, "getOptions") /\ calls[c].pc = "fetching"
    /\ calls[c].req.asset = "eth"
    /\ calls[c].req.optionType = "CALL" /\ calls[c].req.positionType = Undefined
    /\ calls[c].log[Len(calls[c].log)].arg
         = [asset |-> "ETH", optionType |-> "put", positionType |-> "short"]

\* C23: every validation rule normalizes the casing of its input before the
\* membership check: an asset, protocol, risk level or strategy focus that
\* differs from an allowed member only in letter case is accepted, and a call
\* is rejected with InvalidParameterError only if some value matches no member
\* case-insensitively (or a number is not positive).
C23_MatchesIgnoringCase(request) ==
  /\ toUpperCase(request.asset) \in {"BTC", "ETH"}
  /\ toLowerCase(request.risk_level) \in {"conservative", "moderate", "aggressive"}
  /\ toLowerCase(request.strategy_focus) \in {"income", "growth", "hedging"}

C23_CasingNormalized ==
  \A c \in Calls :
    /\ (IsCall(c, "generateSignals") /\ C23_MatchesIgnoringCase(calls[c].req)
          /\ calls[c].req.budget_usd > 0 /\ calls[c].req.trade_window_ms > 0)
         => ~RejectedWith(c, "InvalidParameterError")
    /\ (IsCall(c, "getPrice") /\ toUpperCase(calls[c].req.asset) \in {"BTC", "ETH"})
         => ~RejectedWith(c, "InvalidParameterError")
    /\ (IsCall(c, "getPerpsPairs")
          /\ toLowerCase(calls[c].req.protocolName) = "hyperliquid")
         => ~RejectedWith(c, "InvalidParameterError")

\* C24: in getPerpsPairs with a valid protocol the remote request carries a
\* baseAsset filter if and only if the supplied asset equals "btc" or "eth"
\* case-insensitively, and the filter is then the upper-cased symbol; with an
\* absent asset or any other value the call is not rejected and the remote
\* request carries no baseAsset.
C24_Filter(asset) ==
  IF asset # Undefined /\ toLowerCase(asset) \in {"btc", "eth"}
  THEN toUpperCase(asset)
  ELSE Undefined

C24_BaseAssetFilter ==
  \A c \in Calls :
    (IsCall(c, "getPerpsPairs") /\ toLowerCase(calls[c].req.protocolName) = "hyperliquid")
    => /\ ~RejectedWith(c, "InvalidParameterError")
       /\ (calls[c].pc \in {"fetching"} \/ (Settled(c) /\ calls[c].ok))
            => CountOf(calls[c].log, "getPerpsPairs") = 1
       /\ \A i \in DOMAIN calls[c].log :
            (calls[c].log[i].name = "getPerpsPairs")
            => /\ calls[c].log[i].arg.baseAsset = C24_Filter(calls[c].req.asset)
               /\ calls[c].log[i].arg.protocol = calls[c].req.protocolName

\* a query for DOGE pairs went out unfiltered and was answered
C24_Witness ==
  \E c \in Calls :
    /\ IsCall(c, "getPerpsPairs") /\ Settled(c) /\ calls[c].ok
    /\ calls[c].req.asset = "DOGE"
    /\ calls[c].log[Len(calls[c].log)].arg.baseAsset = Undefined

\* C25: getPerpsPairs returns exactly one structured pair per remote pair
\* string, in the remote order, with baseAsset the text before the first "-"
\* and quoteAsset the text between the first and the second "-"; a string
\* without a delimiter or with more than two parts is not rejected: quoteAsset
\* is then undefined, or the extra parts are dropped.
C25_Dash(str, from) ==
  IF \E i \in from..Len(str) : str[i] = "-"
  THEN CHOOSE i \in from..Len(str) :
         str[i] = "-" /\ \A j \in from..(i - 1) : str[j] # "-"
  ELSE Len(str) + 1

C25_Base(str) == SubSeq(str, 1, C25_Dash(str, 1) - 1)

C25_Quote(str) ==
  LET first == C25_Dash(str, 1)
  IN IF first > Len(str) THEN <<Undefined>>
     ELSE SubSeq(str, first + 1, C25_Dash(str, first + 1) - 1)

C25_PairsSplit ==
  \A c \in Calls :
    (IsCall(c, "getPerpsPairs") /\ Settled(c) /\ calls[c].resp # NoArg)
    => /\ calls[c].ok
       /\ Len(calls[c].out.pairs) = Len(calls[c].resp.pairs)
       /\ \A i \in DOMAIN calls[c].resp.pairs :
            /\ calls[c].out.pairs[i].baseAsset = C25_Base(calls[c].resp.pairs[i])
            /\ calls[c].out.pairs[i].quoteAsset = C25_Quote(calls[c].resp.pairs[i])

\* "BTC-USD-PERP" came back as {BTC, USD} and "BTCUSD" as {BTCUSD, undefined}
C25_Witness ==
  \E c \in Calls :
    /\ IsCall(c, "getPerpsPairs") /\ Settled(c) /\ calls[c].ok
    /\ calls[c].resp = [pairs |-> << <<"BTC", "-", "USD", "-", "PERP">>, <<"BTCUSD">> >>]
    /\ calls[c].out.pairs[1] = [baseAsset |-> <<"BTC">>, quoteAsset |-> <<"USD">>]
    /\ calls[c].out.pairs[2] = [baseAsset |-> <<"BTCUSD">>, quoteAsset |-> <<Undefined>>]

\* C26: a failed refresh leaves the options cache untouched: when getOptions
\* fails (credential, SDK initialization or getOptionsMarketBoard), optionsCache
\* and lastFetchTime keep the values they had, the error reaches the caller,
\* and the failure starts no freshness window: until a refresh has succeeded
\* no call is served from the cache.
C26_Fails(c) ==
  /\ calls'[c].op = "getOptions" /\ calls'[c].pc = "done" /\ ~calls'[c].ok
  /\ calls[c].pc # "done"

C26_Step ==
  \A c \in Calls :
    C26_Fails(c)
    => /\ optionsCache' = optionsCache
       /\ lastFetchTime' = lastFetchTime
       /\ calls'[c].err.kind \in {"AuthenticationError", "Error", "ApiError"}
       /\ history'["getOptions"].failed = history["getOptions"].failed + 1

C26_State ==
  /\ (history["getOptions"].ok = 0 /\ \A c \in Calls : ~(Settled(c) /\ calls[c].ok))
       => (lastFetchTime = 0 /\ optionsCache = <<>>)
  /\ \A c \in Calls :
       (IsCall(c, "getOptions") /\ Settled(c) /\ calls[c].ok /\ ~calls[c].refreshed)
       => lastFetchTime # 0

C26_FailedRefreshKeepsCache == [](C26_State) /\ [][C26_Step]_vars

\* the first fetch failed; the next call, with no time passed, fetches again
C26_Witness ==
  /\ history["getOptions"].failed = 1
  /\ ticks = 0 /\ lastFetchTime = 0
  /\ remoteCalls["getOptionsMarketBoard"] = 2
  /\ \E c \in Calls : IsCall(c, "getOptions") /\ calls[c].pc = "fetching"

\* C27: under any interleaving of overlapping getOptions calls on one
\* instance, a call that performs a refresh builds its response from the
\* entries of its own fetch (filtered by its option type): no other call's
\* cache write comes between its cache assignment and its read of the cache.
C27_OwnEntries(c) ==
  SelectSeq(calls[c].resp.items, LAMBDA o :
    \/ calls[c].req.optionType \in {Undefined, ""}
    \/ toLowerCase(o.type) = toLowerCase(calls[c].req.optionType))

C27_ResponseFromOwnFetch ==
  \A c \in Calls :
    (IsCall(c, "getOptions") /\ Settled(c) /\ calls[c].refreshed)
    => LET own == C27_OwnEntries(c)
       IN /\ calls[c].ok
          /\ Len(calls[c].out.options) = Len(own)
          /\ \A i \in DOMAIN own :
               /\ calls[c].out.options[i].optionId = own[i].optionId
               /\ calls[c].out.options[i].expiry = own[i].expiry
               /\ calls[c].out.options[i].strike = own[i].strike
               /\ calls[c].out.options[i].price = own[i].contractPrice

\* of two overlapping refreshes the one processed second (after an empty
\* first answer or any other) returned the one call option of its own board
C27_Witness ==
  /\ remoteCalls["getOptionsMarketBoard"] = 2
  /\ history["getOptions"].ok = 2
  /\ ticks = 0
  /\ \E c \in Calls :
       /\ IsCall(c, "getOptions") /\ Settled(c) /\ calls[c].refreshed
       /\ Len(calls[c].resp.items) = 2
       /\ Len(calls[c].out.options) = 1
       /\ calls[c].out.options[1].optionId = 1

\* C28: a GET_OPTION_PRICE invocation works on the GrixService it constructed
\* itself. When it reaches getOptions the instance has no SDK handle, an empty
\* cache and no fetch time; the call's first remote step is its own SDK
\* initialization (exactly one), and every invocation that answers has made
\* exactly one getOptionsMarketBoard fetch of its own, never answering from a
\* cache, however short the time since the previous invocation.
C28_HandlerCall(c) ==
  calls[c].action = OPTION_ACTION /\ calls[c].op = "getOptions"

C28_Step ==
  \A c \in Calls :
    (calls[c].pc = "extract" /\ calls[c].action = OPTION_ACTION
       /\ calls'[c].op = "getOptions")
    => /\ sdk["option"] = NoHandle
       /\ optionsCache = <<>>
       /\ lastFetchTime = 0
       /\ calls'[c].pc = "init"

C28_State ==
  \A c \in Calls :
    C28_HandlerCall(c)
    => /\ calls[c].log # <<>>
       /\ calls[c].log[1].name = "initialize"
       /\ CountOf(calls[c].log, "initialize") = 1
       /\ CountOf(calls[c].log, "getOptionsMarketBoard") <= 1
       /\ (calls[c].pc \in {"done", "handled"} /\ calls[c].ok)
          => /\ CountOf(calls[c].log, "getOptionsMarketBoard") = 1
             /\ calls[c].refreshed

C28_FreshServicePerInvocation == [](C28_State) /\ [][C28_Step]_vars

\* two invocations with no time at all between them: two initializations and
\* two board fetches, and the second one answered
C28_Witness ==
  /\ ticks = 0
  /\ started = 2
  /\ initCalls["option"] = 2
  /\ remoteCalls["getOptionsMarketBoard"] = 2
  /\ history["getOptions"].ok = 2
  /\ \E c \in Calls :
       /\ C28_HandlerCall(c)
       /\ calls[c].pc = "handled"
       /\ calls[c].returned = "true"

\* C29: the GET_TRADING_SIGNAL handler forwards the extracted strategy_focus
\* unchanged ("growth" when none was extracted). A focus of "safety" or
\* "yield", which the extraction template offers, is rejected by
\* generateSignals with an InvalidParameterError before any remote call; the
\* handler then returns false and, when it was given a callback, calls it with
\* the text of that error.
C29_HandlerCall(c) ==
  calls[c].action = SIGNAL_ACTION /\ calls[c].op = "generateSignals"

C29_TemplateFocusRejected ==
  \A c \in Calls :
    C29_HandlerCall(c)
    => /\ calls[c].req.strategy_focus =
            OrDefault(calls[c].extracted.strategy_focus, "growth")
       /\ calls[c].req.strategy_focus \in {"safety", "yield"}
          => /\ calls[c].pc \in {"done", "handled"}
             /\ ~calls[c].ok
             /\ calls[c].err.kind = "InvalidParameterError"
             /\ NoRemoteCall(c)
             /\ calls[c].pc = "handled"
                => /\ calls[c].returned = "false"
                   /\ calls[c].callback
                      => calls[c].said = [text |-> "sorry", error |-> calls[c].err]

\* an invocation whose extraction gave "safety" has told its callback the
\* InvalidParameterError and returned false, with no remote call made
C29_Witness ==
  \E c \in Calls :
    /\ C29_HandlerCall(c)
    /\ calls[c].extracted.strategy_focus = "safety"
    /\ calls[c].pc = "handled"
    /\ calls[c].callback
    /\ calls[c].said.text = "sorry"
    /\ calls[c].said.error.kind = "InvalidParameterError"
    /\ calls[c].returned = "false"
    /\ NoRemoteCall(c)
    /\ initCalls["signal"] = 0

\* C30: every generateSignals invocation terminates. With every pending
\* remote call and delay eventually returning or failing, an invocation in
\* flight eventually settles; at every moment it has made at most one
\* createTradeAgent, one requestTradeAgentSignals, MAX_RETRIES status fetches
\* and MAX_RETRIES delays; and a settled invocation is in exactly one of
\* Completed (signals returned), TimedOut and Failed (validation, missing
\* API key or remote error).
C30_Completed(c) ==
  /\ calls[c].ok
  /\ calls[c].err = NoError
  /\ IsTerminalSuccess(calls[c].resp)
  /\ calls[c].out = SignalResponse(calls[c].resp)

C30_TimedOut(c) ==
  /\ ~calls[c].ok
  /\ calls[c].err = TimeoutError
  /\ CountOf(calls[c].log, "getTradeSignals") = MAX_RETRIES
  /\ calls[c].delays = MAX_RETRIES

C30_Failed(c) ==
  /\ ~calls[c].ok
  /\ calls[c].err # NoError
  /\ calls[c].err # TimeoutError
  /\ calls[c].err.kind = "InvalidParameterError" => NoRemoteCall(c)

C30_Outcomes(c) ==
  Cardinality({o \in {"Completed", "TimedOut", "Failed"} :
                 \/ o = "Completed" /\ C30_Completed(c)
                 \/ o = "TimedOut" /\ C30_TimedOut(c)
                 \/ o = "Failed" /\ C30_Failed(c)})

C30_Bounded ==
  \A c \in Calls :
    IsCall(c, "generateSignals")
    => /\ CountOf(calls[c].log, "createTradeAgent") <= 1
       /\ CountOf(calls[c].log, "requestTradeAgentSignals") <= 1
       /\ CountOf(calls[c].log, "getTradeSignals") <= MAX_RETRIES
       /\ calls[c].delays <= MAX_RETRIES
       /\ Settled(c) => C30_Outcomes(c) = 1

C30_Terminates ==
  [](C30_Bounded)
  /\ \A c \in Calls :
       (IsCall(c, "generateSignals") /\ ~Settled(c)) ~> Settled(c)

\* an invocation has timed out after MAX_RETRIES status fetches and as many
\* delays, with one agent created and one signal request made
C30_Witness ==
  \E c \in Calls :
    /\ IsCall(c, "generateSignals") /\ Settled(c)
    /\ C30_TimedOut(c)
    /\ CountOf(calls[c].log, "createTradeAgent") = 1
    /\ CountOf(calls[c].log, "requestTradeAgentSignals") = 1
====
